---- MODULE Spec2Model ----
(***************************************************************************)
(* Model of the batch scanner of c_scanner.c: the per-worker xorshift      *)
(* sampler, the batch walk over consecutive public points, the matcher,    *)
(* the reporter, the shared keys-checked counter and found flag, the stats *)
(* task, the signal handler and main's join/summary sequence.              *)
(*                                                                         *)
(* Number representation.  TLC integers are 32 bits wide, so a uint64_t is *)
(* a tuple of 8 bytes, least significant byte first, and every operation   *)
(* on it is computed byte-wise modulo 2^64.  A 32-byte big-endian scalar   *)
(* (b32 in make_scalar) is a tuple of 32 bytes, most significant first.    *)
(*                                                                         *)
(* Curve points.  The curve library is an external collaborator.  The      *)
(* group generated by G is cyclic of order N, so a point k*G is            *)
(* represented by k (as 32 big-endian bytes); the Jacobian and affine      *)
(* forms are tagged so that one cannot be used where the other is due.     *)
(*                                                                         *)
(* Steps.  A worker's step ends where another thread can make a            *)
(* difference: at the reads of the found flag in the two loop checks, at   *)
(* the additions to the shared counter, and at the file write and the flag *)
(* store of report_found.  Sampling, batch generation and the evaluation   *)
(* of a batch touch only the worker's own memory and belong to the step    *)
(* they follow.  A loop check that fails is one step with the flush it     *)
(* falls through to: the flag, once read set, reads set ever after.        *)
(***************************************************************************)
EXTENDS Integers, Sequences, FiniteSets, TLC

(* ------------------------------ bounds -------------------------------- *)
\* number of worker threads started by main (NUM_THREADS is run-time input)
NumWorkers == 2
\* starts drawn in one run, over all workers, before the model stops sampling
MaxSamples == 2
\* scaled batch width, batches per sample and flush threshold
BATCH_SIZE == 3
NUM_BATCHES == 2
FLUSH_THRESHOLD == 4
\* how many leading bytes of the target the digests tried may differ in
ProbeWidth == 7

\* the number of 33-byte inputs hashed
NumHashInputs == 34

Workers == 1..NumWorkers

(* ------------------------- 64-bit arithmetic -------------------------- *)
Byte == 0..255

Pow2(k) == 2^k

\* Op applied to the value of v, with v evaluated once
Bind(v, Op(_)) == CHOOSE r \in { Op(x) : x \in {v} } : TRUE

\* eager tuples of 8, 16, 20 and 32 elements Op(1), Op(2), ...
Tup8(Op(_)) == << Op(1), Op(2), Op(3), Op(4), Op(5), Op(6), Op(7), Op(8) >>

Tup16(Op(_)) == Tup8(Op) \o Tup8(LAMBDA j : Op(j + 8))

Tup20(Op(_)) == Tup16(Op) \o << Op(17), Op(18), Op(19), Op(20) >>

Tup32(Op(_)) == Tup16(Op) \o Tup16(LAMBDA j : Op(j + 16))

\* Step(..Step(Step(x, lo), lo + 1).., hi), the first half of the range first
Iterate(x, lo, hi, Step(_, _)) ==
    LET RECURSIVE Run(_, _, _)
        Run(y, a, b) ==
            IF a > b THEN y
            ELSE IF a = b THEN Step(y, a)
            ELSE Bind(Run(y, a, (a + b) \div 2), LAMBDA z :
                     Run(z, ((a + b) \div 2) + 1, b))
    IN  Run(x, lo, hi)

\* the uint64_t with value n, for a small natural n (n < 2^31)
U64FromNat(n) ==
    Tup8(LAMBDA j : IF j <= 3 THEN (n \div (256^(j-1))) % 256
                    ELSE IF j = 4 THEN (n \div 16777216) % 256
                    ELSE 0)

\* the uint64_t written as 8 bytes, most significant first
U64FromBE(bytes) == Tup8(LAMBDA j : bytes[9 - j])

Bit(a, k) == (a \div Pow2(k)) % 2

XorBit(a, b, k) == ((Bit(a, k) + Bit(b, k)) % 2) * Pow2(k)

\* the xor of two 4-bit values, tabulated: XorNibble[a + 1][b + 1]
XorNibble ==
    Tup16(LAMBDA a : Tup16(LAMBDA b :
        XorBit(a - 1, b - 1, 0) + XorBit(a - 1, b - 1, 1)
      + XorBit(a - 1, b - 1, 2) + XorBit(a - 1, b - 1, 3)))

XorByte(a, b) ==
    16 * XorNibble[(a \div 16) + 1][(b \div 16) + 1]
       + XorNibble[(a % 16) + 1][(b % 16) + 1]

\* x ^ y
XorU64(x, y) ==
    Bind(x, LAMBDA a : Bind(y, LAMBDA b :
        Tup8(LAMBDA j : XorByte(a[j], b[j]))))

\* x >> s
ShrU64(x, s) ==
    LET q == s \div 8
        r == s % 8
        at(j) == IF j <= 8 THEN x[j] ELSE 0
    IN  Tup8(LAMBDA j : (at(j + q) \div Pow2(r))
                        + (at(j + q + 1) % Pow2(r)) * Pow2(8 - r))

\* x << s, truncated to 64 bits
ShlU64(x, s) ==
    LET q == s \div 8
        r == s % 8
        at(j) == IF j >= 1 THEN x[j] ELSE 0
    IN  Tup8(LAMBDA j : ((at(j - q) * Pow2(r)) % 256)
                        + (at(j - q - 1) \div Pow2(8 - r)))

RECURSIVE ColSum(_, _, _, _)
\* sum of x[i] * k[j-i+1] for i in 1..n : column j of the schoolbook product
ColSum(x, k, j, n) ==
    IF n = 0 THEN 0 ELSE x[n] * k[j - n + 1] + ColSum(x, k, j, n - 1)

RECURSIVE MulFrom(_, _, _, _)
\* bytes j..8 of x * k given the carry into column j
MulFrom(x, k, j, carry) ==
    IF j = 9 THEN <<>>
    ELSE Bind(ColSum(x, k, j, j) + carry, LAMBDA t :
             <<t % 256>> \o MulFrom(x, k, j + 1, t \div 256))

\* x * k, truncated to 64 bits
MulU64(x, k) == Bind(x, LAMBDA a : Bind(k, LAMBDA b : MulFrom(a, b, 1, 0)))

RECURSIVE AddFrom(_, _, _, _)
\* bytes j..8 of x + y given the carry into byte j, followed by the carry out
\* of bit 63
AddFrom(x, y, j, carry) ==
    IF j = 9 THEN <<carry>>
    ELSE Bind(x[j] + y[j] + carry, LAMBDA t :
             <<t % 256>> \o AddFrom(x, y, j + 1, t \div 256))

\* x + y, truncated to 64 bits
AddU64(x, y) ==
    Bind(x, LAMBDA a : Bind(y, LAMBDA b : SubSeq(AddFrom(a, b, 1, 0), 1, 8)))

RECURSIVE LessFrom(_, _, _)
LessFrom(x, y, j) ==
    IF j = 0 THEN FALSE
    ELSE IF x[j] # y[j] THEN x[j] < y[j]
    ELSE LessFrom(x, y, j - 1)

\* x < y as unsigned 64-bit integers
LessU64(x, y) == LessFrom(x, y, 8)

U64Zero == U64FromNat(0)

(* ------------------------------ sampler ------------------------------- *)
\* 0x2545F4914F6CDD1D
XorshiftMult == U64FromBE(<<37, 69, 244, 145, 79, 108, 221, 29>>)

\* xorshift64_next: the new generator state and the value returned
xorshift64_next(s) ==
    Bind(XorU64(s, ShrU64(s, 12)), LAMBDA x1 :
    Bind(XorU64(x1, ShlU64(x1, 25)), LAMBDA x2 :
    Bind(XorU64(x2, ShrU64(x2, 27)), LAMBDA x3 :
        [s |-> x3, out |-> MulU64(x3, XorshiftMult)])))

\* random_start: two draws; hi = 4 + (r & 3), lo = the second draw
random_start(s) ==
    Bind(xorshift64_next(s), LAMBDA d1 :
    Bind(xorshift64_next(d1.s), LAMBDA d2 :
        [s |-> d2.s, hi |-> U64FromNat(4 + (d1.out[1] % 4)), lo |-> d2.out]))

(* --------------------------- 256-bit scalars --------------------------- *)
\* the range the banner announces: 0x400000000000000000 - 0x7FFFFFFFFFFFFFFFFF
RANGE_MIN == Tup32(LAMBDA c : IF c = 24 THEN 64 ELSE 0)
RANGE_MAX == Tup32(LAMBDA c : IF c <= 23 THEN 0 ELSE IF c = 24 THEN 127 ELSE 255)

Zero32 == Tup32(LAMBDA c : 0)
One32 == Tup32(LAMBDA c : IF c = 32 THEN 1 ELSE 0)

\* the order of the group generated by G (secp256k1), big-endian
GroupOrder ==
    << 255, 255, 255, 255, 255, 255, 255, 255,
       255, 255, 255, 255, 255, 255, 255, 254,
       186, 174, 220, 230, 175,  72, 160,  59,
       191, 210,  94, 140, 208,  54,  65,  65 >>

RECURSIVE LessB32From(_, _, _)
LessB32From(a, b, c) ==
    IF c = 33 THEN FALSE
    ELSE IF a[c] # b[c] THEN a[c] < b[c]
    ELSE LessB32From(a, b, c + 1)

\* a < b as 256-bit big-endian integers
LessB32(a, b) == LessB32From(a, b, 1)

\* the three bytes g of a, as a number: a is taken with a zero byte in front,
\* 33 bytes in 11 groups, group 11 the least significant
Group3(a, g) ==
    (IF g = 1 THEN 0 ELSE a[3 * g - 3]) * 65536 + a[3 * g - 2] * 256 + a[3 * g - 1]

RECURSIVE AddB32From(_, _, _, _)
\* groups 1..g of a + b given the carry into group g: 33 bytes when g = 11,
\* the first of them the carry out of the 256 bits
AddB32From(a, b, g, carry) ==
    IF g = 0 THEN <<>>
    ELSE Bind(Group3(a, g) + Group3(b, g) + carry, LAMBDA t :
             AddB32From(a, b, g - 1, t \div 16777216)
                 \o << (t \div 65536) % 256, (t \div 256) % 256, t % 256 >>)

RECURSIVE BorrowB32(_, _, _)
\* borrow out of byte c+1 of a - b
BorrowB32(a, b, c) ==
    IF c = 32 THEN 0
    ELSE IF a[c+1] - b[c+1] - BorrowB32(a, b, c + 1) < 0 THEN 1 ELSE 0

\* a - b modulo 2^256
SubB32(a, b) ==
    Tup32(LAMBDA c : (a[c] - b[c] - BorrowB32(a, b, c) + 256) % 256)

\* (a + b) mod GroupOrder, for a, b < GroupOrder
AddModOrder(a, b) ==
    Bind(AddB32From(a, b, 11, 0), LAMBDA full :
    Bind(Tail(full), LAMBDA sum :
        IF full[1] = 1 \/ ~LessB32(sum, GroupOrder)
        THEN SubB32(sum, GroupOrder) ELSE sum))

\* secp256k1_scalar_set_b32: the bytes taken as an integer mod the group order
secp256k1_scalar_set_b32(b32) ==
    Bind(b32, LAMBDA b :
        IF LessB32(b, GroupOrder) THEN b ELSE SubB32(b, GroupOrder))

\* make_scalar: b32[23] = hi & 0xFF, b32[24..31] = the bytes of lo, big-endian
make_scalar(hi, lo) ==
    Bind(hi, LAMBDA h : Bind(lo, LAMBDA l :
        secp256k1_scalar_set_b32(
            Tup32(LAMBDA c : IF c <= 23 THEN 0
                             ELSE IF c = 24 THEN h[1]
                             ELSE l[33 - c]))))

(* ---------------------------- curve interface -------------------------- *)
\* secp256k1_ecmult_gen: the Jacobian point s*G
secp256k1_ecmult_gen(s) == [jac |-> s]

\* secp256k1_ge_set_gej_var: one Jacobian point to affine
secp256k1_ge_set_gej_var(pj) == [aff |-> pj.jac]

\* g_gen_affine as init_secp256k1 leaves it: 1*G in affine form
g_gen_affine == secp256k1_ge_set_gej_var(secp256k1_ecmult_gen(One32))

\* secp256k1_gej_add_ge_var: Jacobian point plus affine point
secp256k1_gej_add_ge_var(pj, pa) ==
    Bind(pj.jac, LAMBDA a : Bind(pa.aff, LAMBDA b : [jac |-> AddModOrder(a, b)]))

\* secp256k1_ge_set_all_gej_var: a whole buffer of Jacobian points to affine
RECURSIVE secp256k1_ge_set_all_gej_var(_)
secp256k1_ge_set_all_gej_var(jac) ==
    IF jac = <<>> THEN <<>>
    ELSE <<secp256k1_ge_set_gej_var(Head(jac))>>
         \o secp256k1_ge_set_all_gej_var(Tail(jac))

\* secp256k1_eckey_pubkey_serialize33: parity prefix and 32 coordinate bytes;
\* the coordinate of k*G is represented by the bytes of k
secp256k1_eckey_pubkey_serialize33(pa) ==
    Bind(pa.aff, LAMBDA x : <<2 + (x[32] % 2)>> \o x)

(* -------------------------------- matcher ------------------------------ *)
\* hash160 as the scanner uses it: a deterministic 20-byte digest of the 33
\* serialized bytes.  The digest here is a stand-in that mixes the low
\* coordinate bytes; candidates 2m and 2m+1 share their 4-byte prefix and
\* differ in byte 5, so the prefix filter and the full compare both decide.
hash160(pub33) ==
    Bind(pub33, LAMBDA p :
        Tup20(LAMBDA j : IF j = 1 THEN p[33] \div 2
                         ELSE IF j <= 4 THEN p[34 - j]
                         ELSE IF j = 5 THEN p[33]
                         ELSE p[35 - j]))

\* the key the model's target digest belongs to: 0x7_0000000000000002
TargetHi == U64FromNat(7)
TargetLo == U64FromNat(2)

TARGET_H160 ==
    hash160(secp256k1_eckey_pubkey_serialize33(
        secp256k1_ge_set_gej_var(
            secp256k1_ecmult_gen(make_scalar(TargetHi, TargetLo)))))

\* memcpy(&TARGET_PREFIX, TARGET_H160, 4)
TARGET_PREFIX == SubSeq(TARGET_H160, 1, 4)

\* Step 1 of a batch: jac_batch[0] = current_jac, jac_batch[i] = jac_batch[i-1] + G
RECURSIVE GenBatch(_, _)
GenBatch(current, n) ==
    IF n = 1 THEN <<current>>
    ELSE Bind(GenBatch(current, n - 1), LAMBDA prev :
             Append(prev, secp256k1_gej_add_ge_var(prev[n - 1], g_gen_affine)))

\* the advance without the addition of G: the next batch would start on the
\* last point of this one
AdvancePast_same(jac) == jac[BATCH_SIZE]

\* the advance after a batch: current_jac = jac_batch[BATCH_SIZE-1] + G
AdvancePast(jac) == secp256k1_gej_add_ge_var(jac[BATCH_SIZE], g_gen_affine)

\* the key with the index alone as offset, the batch number left out
FoundKey_noBatch(hi, lo, batch_num, i) ==
    Bind(U64FromNat(i), LAMBDA offset :
    Bind(AddU64(lo, offset), LAMBDA found_lo :
    Bind(U64FromNat(IF LessU64(found_lo, lo) THEN 1 ELSE 0), LAMBDA carry :
        [hi |-> AddU64(hi, carry), lo |-> found_lo])))

\* the key with the carry into the high word left out
FoundKey_noCarry(hi, lo, batch_num, i) ==
    Bind(U64FromNat(batch_num * BATCH_SIZE + i), LAMBDA offset :
        [hi |-> hi, lo |-> AddU64(lo, offset)])

\* offset = batch_num * BATCH_SIZE + i; found_lo = lo + offset;
\* found_hi = hi + (found_lo < lo ? 1 : 0)
FoundKey(hi, lo, batch_num, i) ==
    Bind(U64FromNat(batch_num * BATCH_SIZE + i), LAMBDA offset :
    Bind(AddU64(lo, offset), LAMBDA found_lo :
    Bind(U64FromNat(IF LessU64(found_lo, lo) THEN 1 ELSE 0), LAMBDA carry :
        [hi |-> AddU64(hi, carry), lo |-> found_lo])))

(* ------------------------------- reporter ------------------------------ *)
\* the 16 hexadecimal digits of a uint64_t, most significant first
Hex16(x) == Tup16(LAMBDA d : IF d % 2 = 1 THEN x[8 - (d \div 2)] \div 16
                             ELSE x[9 - (d \div 2)] % 16)

RECURSIVE FirstDigit(_, _)
\* the position of the first digit %llX prints: no leading zeros, one digit
\* for zero
FirstDigit(ds, k) ==
    IF k < Len(ds) /\ ds[k] = 0 THEN FirstDigit(ds, k + 1) ELSE k

StripZeros(ds) == SubSeq(ds, FirstDigit(ds, 1), Len(ds))

\* format_privkey: "0x%llX%016llX" of (hi, lo), as the digits after "0x"
format_privkey(hi, lo) ==
    Bind(Hex16(hi), LAMBDA hs : StripZeros(hs) \o Hex16(lo))

(* -------------------------------- state -------------------------------- *)
VARIABLES
    g_total_keys,   \* atomic_ullong: the shared keys-checked counter
    g_found,        \* atomic_int: the found flag
    g_interrupted,  \* sig_atomic_t set by the signal handler
    worker,         \* per worker: position and locals of scanner_thread
    stats,          \* position and locals of stats_thread
    main,           \* position of main, its self-test results and summary
    result_file,    \* FOUND_KEY.txt: <<>> or the record last written
    file_writes,    \* how many times FOUND_KEY.txt has been written
    probe           \* one candidate taken through the matcher on its own

\* the state of a run of the scanner
scan_vars == << g_total_keys, g_found, g_interrupted, worker, stats, main,
                result_file, file_writes >>

vars == << g_total_keys, g_found, g_interrupted, worker, stats, main,
           result_file, file_writes, probe >>

\* rng.s values the entropy source may leave a worker with.  SeedCarry makes
\* random_start return (6, 2^64 - 2), whose walk crosses 2^64 and reaches the
\* target; zero is the value the zero-seed guard replaces, and its walk
\* meets no match.
SeedCarry == U64FromBE(<<157, 148, 28, 15, 215, 10, 213, 253>>)
Seeds == {SeedCarry, U64Zero}

NoPoint == [jac |-> Zero32]

InitWorker ==
    [ pc |-> "start", rng |-> U64Zero, hi |-> U64Zero, lo |-> U64Zero,
      current_jac |-> NoPoint, jac_batch |-> <<>>, aff_batch |-> <<>>,
      batch_num |-> 0, i |-> 0, local_count |-> 0,
      found_hi |-> U64Zero, found_lo |-> U64Zero,
      samples |-> 0,       \* starts drawn so far: calls of random_start
      mults |-> 0,         \* scalar multiplications: calls of secp256k1_ecmult_gen
      evaluated |-> 0,     \* candidates serialized, hashed and compared
      no_memory |-> FALSE, \* one of the two mallocs returned NULL
      matched |-> FALSE,   \* a full 20-byte match was confirmed
      file_step |-> "pending", \* report_found's file block: "written",
                               \* "not_opened" (fopen returned NULL), or
                               \* "pending" before it
      reported |-> FALSE ] \* report_found ran to completion

Init ==
    /\ g_total_keys = 0
    /\ g_found = 0
    /\ g_interrupted = 0
    /\ worker = [w \in Workers |-> [InitWorker EXCEPT !.pc = "uncreated"]]
    /\ stats = [pc |-> "uncreated"]
    /\ main = [pc |-> "selftest", tests |-> <<>>, status |-> 0,
               next |-> 1, total |-> 0, message |-> "none"]
    /\ result_file = <<>>
    /\ file_writes = 0
    /\ probe = [pc |-> "none"]

(* ------------------------------- workers ------------------------------- *)
\* a worker that has returned: its locals are gone, what it did remains
Returned(me) ==
    [ InitWorker EXCEPT !.pc = "exited",
                        !.samples = me.samples,
                        !.mults = me.mults,
                        !.evaluated = me.evaluated,
                        !.no_memory = me.no_memory,
                        !.matched = me.matched,
                        !.file_step = me.file_step,
                        !.found_hi = me.found_hi,
                        !.found_lo = me.found_lo,
                        !.reported = me.reported ]

\* a worker that answers a failed malloc by raising the found flag
WorkerStart_stopAll(w) ==
    /\ worker[w].pc = "start"
    /\ \/ /\ worker' = [worker EXCEPT
                 ![w] = Returned([worker[w] EXCEPT !.no_memory = TRUE])]
          /\ g_found' = 1
       \/ /\ \E seed \in Seeds :
                worker' = [worker EXCEPT
                    ![w].rng = IF seed = U64Zero THEN U64FromNat(1) ELSE seed,
                    ![w].local_count = 0,
                    ![w].pc = "while"]
          /\ UNCHANGED g_found
    /\ UNCHANGED << g_total_keys, g_interrupted, stats, main,
                    result_file, file_writes, probe >>

\* scanner_thread entry: the two mallocs and the seeding of the generator
WorkerStart(w) ==
    /\ worker[w].pc = "start"
    /\ \/ \* malloc failed: the message on stderr and return NULL
          worker' = [worker EXCEPT
              ![w] = Returned([worker[w] EXCEPT !.no_memory = TRUE])]
       \/ \E seed \in Seeds :
             worker' = [worker EXCEPT
                 ![w].rng = IF seed = U64Zero THEN U64FromNat(1) ELSE seed,
                 ![w].local_count = 0,
                 ![w].pc = "while"]
    /\ UNCHANGED << g_total_keys, g_found, g_interrupted, stats, main,
                    result_file, file_writes, probe >>

\* a store of the tally in place of the addition
FetchAdd_store(total, local_count) == local_count

\* atomic_fetch_add(&g_total_keys, local_count)
FetchAdd(total, local_count) == total + local_count

\* if (local_count > 0) atomic_fetch_add(&g_total_keys, local_count), as it
\* stands after the batch loop and again at the done label
FlushRest(total, local_count) ==
    IF local_count > 0 THEN FetchAdd(total, local_count) ELSE total

RECURSIVE SumSamples(_)
SumSamples(n) == IF n = 0 THEN 0 ELSE worker[n].samples + SumSamples(n - 1)

\* starts drawn so far by all workers
SamplesDrawn == SumSamples(NumWorkers)

\* an outer loop that never looks at the flag
WhileCond_always(found) == TRUE

\* the condition of the outer loop: while (!atomic_load(&g_found))
WhileCond(found) == found = 0

\* the outer loop check.  When it passes: random_start, make_scalar and the
\* one scalar multiplication of the sample.  When it fails the worker falls
\* through to the done label: the last flush, the frees and the return.
WhileCheck(w) ==
    /\ worker[w].pc = "while"
    /\ IF WhileCond(g_found)
       THEN /\ SamplesDrawn < MaxSamples
            /\ UNCHANGED g_total_keys
            /\ \E rs \in {random_start(worker[w].rng)} :
                   worker' = [worker EXCEPT
                       ![w].rng = rs.s,
                       ![w].hi = rs.hi,
                       ![w].lo = rs.lo,
                       ![w].current_jac =
                           secp256k1_ecmult_gen(make_scalar(rs.hi, rs.lo)),
                       ![w].batch_num = 0,
                       ![w].samples = @ + 1,
                       ![w].mults = @ + 1,
                       ![w].pc = "for"]
       ELSE /\ g_total_keys' =
                    FlushRest(g_total_keys, worker[w].local_count)
            /\ worker' = [worker EXCEPT ![w] = Returned(worker[w])]
    /\ UNCHANGED << g_found, g_interrupted, stats, main,
                    result_file, file_writes, probe >>

\* a batch loop that does not read the flag
ForCond_noFlag(batch_num, found) == batch_num < NUM_BATCHES

\* a batch loop without its count
ForCond_noLimit(batch_num, found) == found = 0

\* the condition of the batch loop:
\* batch_num < NUM_BATCHES && !atomic_load(&g_found)
ForCond(batch_num, found) == batch_num < NUM_BATCHES /\ found = 0

\* the batch loop check.  When it passes: steps 1 and 2 of the batch.  When
\* it fails, for the count or for the flag, which once read set stays set:
\* the flush after the loop, back to the outer loop check.
ForCheck(w) ==
    /\ worker[w].pc = "for"
    /\ IF ForCond(worker[w].batch_num, g_found)
       THEN /\ UNCHANGED g_total_keys
            /\ \E jac \in {GenBatch(worker[w].current_jac, BATCH_SIZE)} :
                worker' = [worker EXCEPT
                    ![w].jac_batch = jac,
                    ![w].aff_batch = secp256k1_ge_set_all_gej_var(jac),
                    ![w].i = 0,
                    ![w].pc = "eval"]
       ELSE /\ g_total_keys' =
                    FlushRest(g_total_keys, worker[w].local_count)
            /\ worker' = [worker EXCEPT ![w].local_count = 0,
                                        ![w].pc = "while"]
    /\ UNCHANGED << g_found, g_interrupted, stats, main,
                    result_file, file_writes, probe >>

\* the uint32_t a load through (uint32_t*)buf yields, as the four bytes it
\* is made of, in memory order
LoadU32(buf) == SubSeq(buf, 1, 4)

\* a filter that looks at the first byte only
PrefixEq_firstByte(h160_buf) == h160_buf[1] = TARGET_PREFIX[1]

\* the prefix filter: *(uint32_t*)h160_buf == TARGET_PREFIX
PrefixEq(h160_buf) == LoadU32(h160_buf) = TARGET_PREFIX

\* the full compare: memcmp(h160_buf, TARGET_H160, 20) == 0
FullEq(h160_buf) == h160_buf = TARGET_H160

\* the prefix filter followed by the full compare
IsMatch(h160_buf) ==
    Bind(h160_buf, LAMBDA h : PrefixEq(h) /\ FullEq(h))

\* local_count += BATCH_SIZE
TallyBatch(local_count) == local_count + BATCH_SIZE

\* the digest step 3 computes for the point at index i (from 0)
DigestAt(aff_batch, i) ==
    hash160(secp256k1_eckey_pubkey_serialize33(aff_batch[i + 1]))

RECURSIVE FirstMatch(_, _)
\* step 3 as a loop from index i: the index of the first point whose digest
\* matches, BATCH_SIZE when the loop runs to its end
FirstMatch(aff_batch, i) ==
    IF i = BATCH_SIZE THEN BATCH_SIZE
    ELSE IF IsMatch(DigestAt(aff_batch, i)) THEN i
    ELSE FirstMatch(aff_batch, i + 1)

\* step 3 for the whole batch, none of which touches shared state: either it
\* stops at a match with the key for report_found, or it runs to the end and
\* is followed by the advance of current_jac and the tally
EvalBatch(w) ==
    /\ worker[w].pc = "eval"
    /\ \E me \in {worker[w]} :
       \E m \in {FirstMatch(me.aff_batch, 0)} :
       \E tally \in {TallyBatch(me.local_count)} :
           IF m < BATCH_SIZE
           THEN \E key \in {FoundKey(me.hi, me.lo, me.batch_num, m)} :
                worker' = [worker EXCEPT
                    ![w].evaluated = @ + m + 1,
                    ![w].i = m,
                    ![w].matched = TRUE,
                    ![w].found_hi = key.hi,
                    ![w].found_lo = key.lo,
                    ![w].pc = "report"]
           ELSE worker' = [worker EXCEPT
                    ![w].evaluated = @ + BATCH_SIZE,
                    ![w].i = BATCH_SIZE,
                    ![w].current_jac = AdvancePast(me.jac_batch),
                    ![w].local_count = tally,
                    ![w].batch_num =
                        IF tally >= FLUSH_THRESHOLD THEN @ ELSE @ + 1,
                    ![w].pc =
                        IF tally >= FLUSH_THRESHOLD THEN "flush_threshold"
                        ELSE "for"]
    /\ UNCHANGED << g_total_keys, g_found, g_interrupted, stats, main,
                    result_file, file_writes, probe >>

\* a threshold flush that leaves the tally as it was
FlushThreshold_keep(w) ==
    /\ worker[w].pc = "flush_threshold"
    /\ g_total_keys' = FetchAdd(g_total_keys, worker[w].local_count)
    /\ worker' = [worker EXCEPT ![w].batch_num = @ + 1,
                                ![w].pc = "for"]
    /\ UNCHANGED << g_found, g_interrupted, stats, main,
                    result_file, file_writes, probe >>

\* the flush inside the batch loop, taken when local_count >= 500000
FlushThreshold(w) ==
    /\ worker[w].pc = "flush_threshold"
    /\ g_total_keys' = FetchAdd(g_total_keys, worker[w].local_count)
    /\ worker' = [worker EXCEPT ![w].local_count = 0,
                                ![w].batch_num = @ + 1,
                                ![w].pc = "for"]
    /\ UNCHANGED << g_found, g_interrupted, stats, main,
                    result_file, file_writes, probe >>

\* a report_found that stores the flag first and turns to the file after
ReportWrite_publishFirst(w) ==
    /\ worker[w].pc = "report"
    /\ g_found' = 1
    /\ worker' = [worker EXCEPT ![w].reported = TRUE, ![w].pc = "store"]
    /\ UNCHANGED << g_total_keys, g_interrupted, stats, main,
                    result_file, file_writes, probe >>

\* report_found up to fclose: the console lines and, when fopen succeeds,
\* the result file with the key and the counter as it reads now
ReportWrite(w) ==
    /\ worker[w].pc = "report"
    /\ \/ /\ result_file' =
                [ key |-> format_privkey(worker[w].found_hi, worker[w].found_lo),
                  total |-> g_total_keys ]
          /\ file_writes' = file_writes + 1
          /\ worker' = [worker EXCEPT ![w].file_step = "written",
                                      ![w].pc = "store"]
       \/ \* fopen returned NULL: the block is skipped without a message
          /\ UNCHANGED << result_file, file_writes >>
          /\ worker' = [worker EXCEPT ![w].file_step = "not_opened",
                                      ![w].pc = "store"]
    /\ UNCHANGED << g_total_keys, g_found, g_interrupted, stats, main, probe >>

\* report_found ending with a store of 0
ReportStore_clear(w) ==
    /\ worker[w].pc = "store"
    /\ g_found' = 0
    /\ worker' = [worker EXCEPT ![w].reported = TRUE, ![w].pc = "done"]
    /\ UNCHANGED << g_total_keys, g_interrupted, stats, main,
                    result_file, file_writes, probe >>

\* the last statement of report_found: atomic_store(&g_found, 1)
ReportStore(w) ==
    /\ worker[w].pc = "store"
    /\ g_found' = 1
    /\ worker' = [worker EXCEPT ![w].reported = TRUE, ![w].pc = "done"]
    /\ UNCHANGED << g_total_keys, g_interrupted, stats, main,
                    result_file, file_writes, probe >>

\* a done label placed inside the outer loop: after the flush the worker is
\* back at the loop check
Done_resume(w) ==
    /\ worker[w].pc = "done"
    /\ g_total_keys' = FlushRest(g_total_keys, worker[w].local_count)
    /\ worker' = [worker EXCEPT ![w].local_count = 0, ![w].pc = "while"]
    /\ UNCHANGED << g_found, g_interrupted, stats, main,
                    result_file, file_writes, probe >>

\* the done label, reached by goto from the match and by leaving the outer
\* loop: the last flush, the frees and the return
Done(w) ==
    /\ worker[w].pc = "done"
    /\ g_total_keys' = FlushRest(g_total_keys, worker[w].local_count)
    /\ worker' = [worker EXCEPT ![w] = Returned(worker[w])]
    /\ UNCHANGED << g_found, g_interrupted, stats, main,
                    result_file, file_writes, probe >>

(* ---------------------------- signal handler --------------------------- *)
\* signal_handler, installed for SIGINT and SIGTERM before the self-tests
\* and so before any thread starts
signal_handler ==
    /\ main.pc \notin {"exit", "failed"}
    /\ g_interrupted' = 1
    /\ g_found' = 1
    /\ UNCHANGED << g_total_keys, worker, stats, main, result_file, file_writes,
                    probe >>

(* ------------------------------ stats task ----------------------------- *)
\* a wake-up that finds the flag clear prints the throughput line, which
\* changes nothing the program reads back
StatsPrint ==
    /\ stats.pc = "loop"
    /\ g_found = 0
    /\ UNCHANGED vars

\* a read of the flag that finds it set ends the loop and the task.  The step
\* depends on no other (the flag stays set) and nothing reads the task's
\* state before main's pthread_join, so it is taken there, where it can first
\* be told from a cancellation.
StatsObserve ==
    /\ stats.pc = "loop"
    /\ main.pc = "join_stats"
    /\ g_found = 1
    /\ stats' = [stats EXCEPT !.pc = "exited"]
    /\ UNCHANGED << g_total_keys, g_found, g_interrupted, worker, main,
                    result_file, file_writes, probe >>

\* sleep is a cancellation point: a pending pthread_cancel ends the task
StatsCancelled ==
    /\ stats.pc = "loop"
    /\ main.pc = "join_stats"
    /\ stats' = [stats EXCEPT !.pc = "cancelled"]
    /\ UNCHANGED << g_total_keys, g_found, g_interrupted, worker, main,
                    result_file, file_writes, probe >>

(* --------------------------------- main -------------------------------- *)
\* the startup self-tests, in order: Hash160(G), EC addition, batch inversion
NumSelfTests == 3

\* a main that goes on to the next self-test whatever the comparison said
AfterSelfTest_ignore(ok, done) ==
    IF done + 1 = NumSelfTests THEN "create" ELSE "selftest"

\* where main goes after a self-test that came out ok, done tests before it:
\* if (memcmp(...) != 0) return 1;  if (!batch_ok) return 1;
AfterSelfTest(ok, done) ==
    IF ~ok THEN "failed"
    ELSE IF done + 1 = NumSelfTests THEN "create" ELSE "selftest"

\* one self-test.  The comparison is there to catch a build whose hashing or
\* curve arithmetic is broken, so its outcome is an input: either value.
MainSelfTest ==
    /\ main.pc = "selftest"
    /\ \E ok \in BOOLEAN :
       \E to \in {AfterSelfTest(ok, Len(main.tests))} :
           main' = [main EXCEPT !.tests = Append(@, ok),
                                !.status = IF to = "failed" THEN 1 ELSE 0,
                                !.pc = to]
    /\ UNCHANGED << g_total_keys, g_found, g_interrupted, worker, stats,
                    result_file, file_writes, probe >>

\* pthread_create of the stats task and of every worker.  A thread created
\* later than another cannot be told from one created with it that has not
\* run yet, so the creations are one step.
MainCreate ==
    /\ main.pc = "create"
    /\ stats' = [stats EXCEPT !.pc = "loop"]
    /\ worker' = [w \in Workers |-> [worker[w] EXCEPT !.pc = "start"]]
    /\ main' = [main EXCEPT !.pc = "join"]
    /\ UNCHANGED << g_total_keys, g_found, g_interrupted,
                    result_file, file_writes, probe >>

\* pthread_join(workers[i], NULL), for i in order
MainJoin ==
    /\ main.pc = "join"
    /\ worker[main.next].pc = "exited"
    /\ main' = [main EXCEPT !.next = @ + 1,
                            !.pc = IF main.next = NumWorkers
                                   THEN "cancel_stats" ELSE "join"]
    /\ UNCHANGED << g_total_keys, g_found, g_interrupted, worker, stats,
                    result_file, file_writes, probe >>

\* pthread_cancel(stats_tid)
MainCancelStats ==
    /\ main.pc = "cancel_stats"
    /\ main' = [main EXCEPT !.pc = "join_stats"]
    /\ UNCHANGED << g_total_keys, g_found, g_interrupted, worker, stats,
                    result_file, file_writes, probe >>

\* pthread_join(stats_tid, NULL) and the load of the counter for the summary
MainJoinStats ==
    /\ main.pc = "join_stats"
    /\ stats.pc \in {"exited", "cancelled"}
    /\ main' = [main EXCEPT !.total = g_total_keys, !.pc = "summary"]
    /\ UNCHANGED << g_total_keys, g_found, g_interrupted, worker, stats,
                    result_file, file_writes, probe >>

\* the final summary, cleanup and return 0
MainSummary ==
    /\ main.pc = "summary"
    /\ main' = [main EXCEPT
           !.message = IF g_interrupted = 1 THEN "interrupted"
                       ELSE IF g_found = 1 THEN "found" ELSE "none",
           !.pc = "exit"]
    /\ UNCHANGED << g_total_keys, g_found, g_interrupted, worker, stats,
                    result_file, file_writes, probe >>

(* ---------------------------- specification ---------------------------- *)
WorkerStep(w) ==
    \/ WorkerStart(w)
    \/ WhileCheck(w)
    \/ ForCheck(w)
    \/ EvalBatch(w)
    \/ FlushThreshold(w)
    \/ ReportWrite(w)
    \/ ReportStore(w)
    \/ Done(w)

StatsStep == StatsObserve \/ StatsPrint \/ StatsCancelled

MainStep ==
    \/ MainSelfTest
    \/ MainCreate
    \/ MainJoin
    \/ MainCancelStats
    \/ MainJoinStats
    \/ MainSummary

Next ==
    \/ \E w \in Workers : WorkerStep(w)
    \/ StatsStep
    \/ MainStep
    \/ signal_handler

Spec == Init /\ [][Next]_vars

\* the threads are kernel threads under a preemptive scheduler: a thread
\* that can take a step eventually takes one; signals need not ever arrive
FairSpec ==
    /\ Spec
    /\ \A w \in Workers : WF_vars(WorkerStep(w))
    /\ WF_vars(StatsStep)
    /\ WF_vars(MainStep)

AllExited == \A w \in Workers : worker[w].pc = "exited"

\* main has passed the self-tests and created the threads
ThreadsCreated == main.pc \notin {"selftest", "create", "failed"}

(* ------------------------ the matcher on its own ----------------------- *)
\* digests tried: the target with any set of its first ProbeWidth bytes
\* changed, which covers a wrong prefix, a right prefix with a wrong tail,
\* and the target itself
Alter(h, P) == Tup20(LAMBDA j : IF j \in P THEN (h[j] + 1) % 256 ELSE h[j])

ProbeDigests == { Alter(TARGET_H160, P) : P \in SUBSET (1..ProbeWidth) }

FilterInit ==
    /\ g_total_keys = 0
    /\ g_found = 0
    /\ g_interrupted = 0
    /\ worker = [w \in Workers |-> [InitWorker EXCEPT !.pc = "uncreated"]]
    /\ stats = [pc |-> "uncreated"]
    /\ main = [pc |-> "selftest", tests |-> <<>>, status |-> 0,
               next |-> 1, total |-> 0, message |-> "none"]
    /\ result_file = <<>>
    /\ file_writes = 0
    /\ \E h \in ProbeDigests :
           probe = [pc |-> "hashed", h160_buf |-> h, compared |-> FALSE]

\* the prefix check of step 3: on a different prefix the loop goes on to the
\* next point without a full compare
ProbePrefix ==
    /\ probe.pc = "hashed"
    /\ probe' = [probe EXCEPT
           !.pc = IF PrefixEq(probe.h160_buf) THEN "memcmp" ELSE "next"]
    /\ UNCHANGED scan_vars

\* the full compare of step 3, reached through the prefix check only
ProbeCompare ==
    /\ probe.pc = "memcmp"
    /\ probe' = [probe EXCEPT
           !.compared = TRUE,
           !.pc = IF FullEq(probe.h160_buf) THEN "match" ELSE "next"]
    /\ UNCHANGED scan_vars

FilterNext == ProbePrefix \/ ProbeCompare

FilterSpec == FilterInit /\ [][FilterNext]_vars

(* --------------------------- 32-bit arithmetic -------------------------- *)
\* a uint32_t is a tuple of 8 four-bit digits, least significant first;
\* W32(hi16, lo16) is the word hi16 * 2^16 + lo16
W32(hi16, lo16) ==
    << lo16 % 16, (lo16 \div 16) % 16, (lo16 \div 256) % 16, lo16 \div 4096,
       hi16 % 16, (hi16 \div 16) % 16, (hi16 \div 256) % 16, hi16 \div 4096 >>

Lo16(x) == x[1] + 16 * x[2] + 256 * x[3] + 4096 * x[4]
Hi16(x) == x[5] + 16 * x[6] + 256 * x[7] + 4096 * x[8]

\* the and, the or of two 4-bit values, tabulated like XorNibble
AndNibble ==
    Tup16(LAMBDA a : Tup16(LAMBDA b :
        Bit(a - 1, 0) * Bit(b - 1, 0) + 2 * Bit(a - 1, 1) * Bit(b - 1, 1)
      + 4 * Bit(a - 1, 2) * Bit(b - 1, 2) + 8 * Bit(a - 1, 3) * Bit(b - 1, 3)))

OrNibble ==
    Tup16(LAMBDA a : Tup16(LAMBDA b :
        (a - 1) + (b - 1) - AndNibble[a][b]))

\* x ^ y, x & y, x | y, ~x on uint32_t
XorW(x, y) == Tup8(LAMBDA j : XorNibble[x[j] + 1][y[j] + 1])
AndW(x, y) == Tup8(LAMBDA j : AndNibble[x[j] + 1][y[j] + 1])
OrW(x, y) == Tup8(LAMBDA j : OrNibble[x[j] + 1][y[j] + 1])
NotW(x) == Tup8(LAMBDA j : 15 - x[j])

\* digit k (from 0) of x, zero outside the word
DigitAt(x, k) == IF k >= 0 /\ k <= 7 THEN x[k + 1] ELSE 0

\* x >> n and x << n on uint32_t, for 0 < n < 32
ShrW(x, n) ==
    Tup8(LAMBDA j :
        (DigitAt(x, j - 1 + (n \div 4)) \div Pow2(n % 4))
      + ((DigitAt(x, j + (n \div 4)) * Pow2(4 - (n % 4))) % 16))

ShlW(x, n) ==
    Tup8(LAMBDA j :
        ((DigitAt(x, j - 1 - (n \div 4)) * Pow2(n % 4)) % 16)
      + (DigitAt(x, j - 2 - (n \div 4)) \div Pow2(4 - (n % 4))))

\* x + y on uint32_t, modulo 2^32
AddW(x, y) ==
    Bind(Lo16(x) + Lo16(y), LAMBDA lo :
        W32((Hi16(x) + Hi16(y) + (lo \div 65536)) % 65536, lo % 65536))

(* ------------------------------- sha256_33 ------------------------------ *)
sha256_H0 ==
    << W32(\h6a09, \he667), W32(\hbb67, \hae85), W32(\h3c6e, \hf372),
       W32(\ha54f, \hf53a), W32(\h510e, \h527f), W32(\h9b05, \h688c),
       W32(\h1f83, \hd9ab), W32(\h5be0, \hcd19) >>

sha256_K ==
    << W32(\h428a, \h2f98), W32(\h7137, \h4491), W32(\hb5c0, \hfbcf), W32(\he9b5, \hdba5),
       W32(\h3956, \hc25b), W32(\h59f1, \h11f1), W32(\h923f, \h82a4), W32(\hab1c, \h5ed5),
       W32(\hd807, \haa98), W32(\h1283, \h5b01), W32(\h2431, \h85be), W32(\h550c, \h7dc3),
       W32(\h72be, \h5d74), W32(\h80de, \hb1fe), W32(\h9bdc, \h06a7), W32(\hc19b, \hf174),
       W32(\he49b, \h69c1), W32(\hefbe, \h4786), W32(\h0fc1, \h9dc6), W32(\h240c, \ha1cc),
       W32(\h2de9, \h2c6f), W32(\h4a74, \h84aa), W32(\h5cb0, \ha9dc), W32(\h76f9, \h88da),
       W32(\h983e, \h5152), W32(\ha831, \hc66d), W32(\hb003, \h27c8), W32(\hbf59, \h7fc7),
       W32(\hc6e0, \h0bf3), W32(\hd5a7, \h9147), W32(\h06ca, \h6351), W32(\h1429, \h2967),
       W32(\h27b7, \h0a85), W32(\h2e1b, \h2138), W32(\h4d2c, \h6dfc), W32(\h5338, \h0d13),
       W32(\h650a, \h7354), W32(\h766a, \h0abb), W32(\h81c2, \hc92e), W32(\h9272, \h2c85),
       W32(\ha2bf, \he8a1), W32(\ha81a, \h664b), W32(\hc24b, \h8b70), W32(\hc76c, \h51a3),
       W32(\hd192, \he819), W32(\hd699, \h0624), W32(\hf40e, \h3585), W32(\h106a, \ha070),
       W32(\h19a4, \hc116), W32(\h1e37, \h6c08), W32(\h2748, \h774c), W32(\h34b0, \hbcb5),
       W32(\h391c, \h0cb3), W32(\h4ed8, \haa4a), W32(\h5b9c, \hca4f), W32(\h682e, \h6ff3),
       W32(\h748f, \h82ee), W32(\h78a5, \h636f), W32(\h84c8, \h7814), W32(\h8cc7, \h0208),
       W32(\h90be, \hfffa), W32(\ha450, \h6ceb), W32(\hbef9, \ha3f7), W32(\hc671, \h78f2) >>

ROR32(x, n) == OrW(ShrW(x, n), ShlW(x, 32 - n))
CH(x, y, z) == XorW(AndW(x, y), AndW(NotW(x), z))
MAJ(x, y, z) == XorW(XorW(AndW(x, y), AndW(x, z)), AndW(y, z))
EP0(x) == XorW(XorW(ROR32(x, 2), ROR32(x, 13)), ROR32(x, 22))
EP1(x) == XorW(XorW(ROR32(x, 6), ROR32(x, 11)), ROR32(x, 25))
SIG0(x) == XorW(XorW(ROR32(x, 7), ROR32(x, 18)), ShrW(x, 3))
SIG1(x) == XorW(XorW(ROR32(x, 17), ROR32(x, 19)), ShrW(x, 10))

\* be32(p + off): the word of the four bytes after offset off, first byte
\* most significant
be32(p, off) ==
    << p[off + 4] % 16, p[off + 4] \div 16, p[off + 3] % 16, p[off + 3] \div 16,
       p[off + 2] % 16, p[off + 2] \div 16, p[off + 1] % 16, p[off + 1] \div 16 >>

\* put_be32: the four bytes of v, most significant first
put_be32(v) ==
    << 16 * v[8] + v[7], 16 * v[6] + v[5], 16 * v[4] + v[3], 16 * v[2] + v[1] >>

\* the single block of sha256_33: the 33 input bytes, 0x80, zeros, and the
\* length in bits 0x0108 in the last two bytes
Sha256Block(input) ==
    Tup32(LAMBDA j : input[j])
        \o << input[33], 128 >>
        \o Tup16(LAMBDA j : 0) \o Tup8(LAMBDA j : 0)
        \o << 0, 0, 0, 0, 1, 8 >>

\* W[0..15]: the block as 16 big-endian words
Sha256Words(block) == Tup16(LAMBDA i : be32(block, 4 * (i - 1)))

\* W[i] = SIG1(W[i-2]) + W[i-7] + SIG0(W[i-15]) + W[i-16], where W[i] of the
\* code is W[i + 1] here
Sha256Extend(W, i) ==
    Append(W, AddW(AddW(AddW(SIG1(W[i - 1]), W[i - 6]), SIG0(W[i - 14])),
                   W[i - 15]))

\* one of the 64 rounds on st = <<a, b, c, d, e, f, g, h>>
Sha256Round(st, k, w) ==
    Bind(AddW(AddW(AddW(AddW(st[8], EP1(st[5])), CH(st[5], st[6], st[7])), k), w),
         LAMBDA t1 :
    Bind(AddW(EP0(st[1]), MAJ(st[1], st[2], st[3])), LAMBDA t2 :
        << AddW(t1, t2), st[1], st[2], st[3],
           AddW(st[4], t1), st[5], st[6], st[7] >>))

\* the output: a + H0[0], b + H0[1], ... as big-endian bytes
Sha256Output(st) ==
    put_be32(AddW(st[1], sha256_H0[1])) \o put_be32(AddW(st[2], sha256_H0[2]))
 \o put_be32(AddW(st[3], sha256_H0[3])) \o put_be32(AddW(st[4], sha256_H0[4]))
 \o put_be32(AddW(st[5], sha256_H0[5])) \o put_be32(AddW(st[6], sha256_H0[6]))
 \o put_be32(AddW(st[7], sha256_H0[7])) \o put_be32(AddW(st[8], sha256_H0[8]))

\* sha256_33: SHA-256 of exactly 33 bytes
sha256_33(input) ==
    Bind(Iterate(Sha256Words(Sha256Block(input)), 16, 63, Sha256Extend),
         LAMBDA W :
        Sha256Output(
            Iterate(sha256_H0, 0, 63,
                    LAMBDA st, i : Sha256Round(st, sha256_K[i + 1], W[i + 1]))))

(* ------------------------------- rmd160_32 ------------------------------ *)
rmd160_H0 ==
    << W32(\h6745, \h2301), W32(\hEFCD, \hAB89), W32(\h98BA, \hDCFE),
       W32(\h1032, \h5476), W32(\hC3D2, \hE1F0) >>

F(x, y, z) == XorW(XorW(x, y), z)
G(x, y, z) == OrW(AndW(x, y), AndW(NotW(x), z))
H(x, y, z) == XorW(OrW(x, NotW(y)), z)
I(x, y, z) == OrW(AndW(x, z), AndW(y, NotW(z)))
J(x, y, z) == XorW(x, OrW(y, NotW(z)))

ROL32(x, n) == OrW(ShlW(x, n), ShrW(x, 32 - n))

\* the 160 RMD_ROUND lines of rmd160_32, in order, each as
\* << a, b, c, d, e, function, its three arguments, index into X, k, s >>
rmd160_rounds ==
    <<
       << "al", "bl", "cl", "dl", "el", "F", "bl", "cl", "dl",  0, W32(\h0000, \h0000), 11 >>,
       << "el", "al", "bl", "cl", "dl", "F", "al", "bl", "cl",  1, W32(\h0000, \h0000), 14 >>,
       << "dl", "el", "al", "bl", "cl", "F", "el", "al", "bl",  2, W32(\h0000, \h0000), 15 >>,
       << "cl", "dl", "el", "al", "bl", "F", "dl", "el", "al",  3, W32(\h0000, \h0000), 12 >>,
       << "bl", "cl", "dl", "el", "al", "F", "cl", "dl", "el",  4, W32(\h0000, \h0000),  5 >>,
       << "al", "bl", "cl", "dl", "el", "F", "bl", "cl", "dl",  5, W32(\h0000, \h0000),  8 >>,
       << "el", "al", "bl", "cl", "dl", "F", "al", "bl", "cl",  6, W32(\h0000, \h0000),  7 >>,
       << "dl", "el", "al", "bl", "cl", "F", "el", "al", "bl",  7, W32(\h0000, \h0000),  9 >>,
       << "cl", "dl", "el", "al", "bl", "F", "dl", "el", "al",  8, W32(\h0000, \h0000), 11 >>,
       << "bl", "cl", "dl", "el", "al", "F", "cl", "dl", "el",  9, W32(\h0000, \h0000), 13 >>,
       << "al", "bl", "cl", "dl", "el", "F", "bl", "cl", "dl", 10, W32(\h0000, \h0000), 14 >>,
       << "el", "al", "bl", "cl", "dl", "F", "al", "bl", "cl", 11, W32(\h0000, \h0000), 15 >>,
       << "dl", "el", "al", "bl", "cl", "F", "el", "al", "bl", 12, W32(\h0000, \h0000),  6 >>,
       << "cl", "dl", "el", "al", "bl", "F", "dl", "el", "al", 13, W32(\h0000, \h0000),  7 >>,
       << "bl", "cl", "dl", "el", "al", "F", "cl", "dl", "el", 14, W32(\h0000, \h0000),  9 >>,
       << "al", "bl", "cl", "dl", "el", "F", "bl", "cl", "dl", 15, W32(\h0000, \h0000),  8 >>,
       << "el", "al", "bl", "cl", "dl", "G", "al", "bl", "cl",  7, W32(\h5A82, \h7999),  7 >>,
       << "dl", "el", "al", "bl", "cl", "G", "el", "al", "bl",  4, W32(\h5A82, \h7999),  6 >>,
       << "cl", "dl", "el", "al", "bl", "G", "dl", "el", "al", 13, W32(\h5A82, \h7999),  8 >>,
       << "bl", "cl", "dl", "el", "al", "G", "cl", "dl", "el",  1, W32(\h5A82, \h7999), 13 >>,
       << "al", "bl", "cl", "dl", "el", "G", "bl", "cl", "dl", 10, W32(\h5A82, \h7999), 11 >>,
       << "el", "al", "bl", "cl", "dl", "G", "al", "bl", "cl",  6, W32(\h5A82, \h7999),  9 >>,
       << "dl", "el", "al", "bl", "cl", "G", "el", "al", "bl", 15, W32(\h5A82, \h7999),  7 >>,
       << "cl", "dl", "el", "al", "bl", "G", "dl", "el", "al",  3, W32(\h5A82, \h7999), 15 >>,
       << "bl", "cl", "dl", "el", "al", "G", "cl", "dl", "el", 12, W32(\h5A82, \h7999),  7 >>,
       << "al", "bl", "cl", "dl", "el", "G", "bl", "cl", "dl",  0, W32(\h5A82, \h7999), 12 >>,
       << "el", "al", "bl", "cl", "dl", "G", "al", "bl", "cl",  9, W32(\h5A82, \h7999), 15 >>,
       << "dl", "el", "al", "bl", "cl", "G", "el", "al", "bl",  5, W32(\h5A82, \h7999),  9 >>,
       << "cl", "dl", "el", "al", "bl", "G", "dl", "el", "al",  2, W32(\h5A82, \h7999), 11 >>,
       << "bl", "cl", "dl", "el", "al", "G", "cl", "dl", "el", 14, W32(\h5A82, \h7999),  7 >>,
       << "al", "bl", "cl", "dl", "el", "G", "bl", "cl", "dl", 11, W32(\h5A82, \h7999), 13 >>,
       << "el", "al", "bl", "cl", "dl", "G", "al", "bl", "cl",  8, W32(\h5A82, \h7999), 12 >>,
       << "dl", "el", "al", "bl", "cl", "H", "el", "al", "bl",  3, W32(\h6ED9, \hEBA1), 11 >>,
       << "cl", "dl", "el", "al", "bl", "H", "dl", "el", "al", 10, W32(\h6ED9, \hEBA1), 13 >>,
       << "bl", "cl", "dl", "el", "al", "H", "cl", "dl", "el", 14, W32(\h6ED9, \hEBA1),  6 >>,
       << "al", "bl", "cl", "dl", "el", "H", "bl", "cl", "dl",  4, W32(\h6ED9, \hEBA1),  7 >>,
       << "el", "al", "bl", "cl", "dl", "H", "al", "bl", "cl",  9, W32(\h6ED9, \hEBA1), 14 >>,
       << "dl", "el", "al", "bl", "cl", "H", "el", "al", "bl", 15, W32(\h6ED9, \hEBA1),  9 >>,
       << "cl", "dl", "el", "al", "bl", "H", "dl", "el", "al",  8, W32(\h6ED9, \hEBA1), 13 >>,
       << "bl", "cl", "dl", "el", "al", "H", "cl", "dl", "el",  1, W32(\h6ED9, \hEBA1), 15 >>,
       << "al", "bl", "cl", "dl", "el", "H", "bl", "cl", "dl",  2, W32(\h6ED9, \hEBA1), 14 >>,
       << "el", "al", "bl", "cl", "dl", "H", "al", "bl", "cl",  7, W32(\h6ED9, \hEBA1),  8 >>,
       << "dl", "el", "al", "bl", "cl", "H", "el", "al", "bl",  0, W32(\h6ED9, \hEBA1), 13 >>,
       << "cl", "dl", "el", "al", "bl", "H", "dl", "el", "al",  6, W32(\h6ED9, \hEBA1),  6 >>,
       << "bl", "cl", "dl", "el", "al", "H", "cl", "dl", "el", 13, W32(\h6ED9, \hEBA1),  5 >>,
       << "al", "bl", "cl", "dl", "el", "H", "bl", "cl", "dl", 11, W32(\h6ED9, \hEBA1), 12 >>,
       << "el", "al", "bl", "cl", "dl", "H", "al", "bl", "cl",  5, W32(\h6ED9, \hEBA1),  7 >>,
       << "dl", "el", "al", "bl", "cl", "H", "el", "al", "bl", 12, W32(\h6ED9, \hEBA1),  5 >>,
       << "cl", "dl", "el", "al", "bl", "I", "dl", "el", "al",  1, W32(\h8F1B, \hBCDC), 11 >>,
       << "bl", "cl", "dl", "el", "al", "I", "cl", "dl", "el",  9, W32(\h8F1B, \hBCDC), 12 >>,
       << "al", "bl", "cl", "dl", "el", "I", "bl", "cl", "dl", 11, W32(\h8F1B, \hBCDC), 14 >>,
       << "el", "al", "bl", "cl", "dl", "I", "al", "bl", "cl", 10, W32(\h8F1B, \hBCDC), 15 >>,
       << "dl", "el", "al", "bl", "cl", "I", "el", "al", "bl",  0, W32(\h8F1B, \hBCDC), 14 >>,
       << "cl", "dl", "el", "al", "bl", "I", "dl", "el", "al",  8, W32(\h8F1B, \hBCDC), 15 >>,
       << "bl", "cl", "dl", "el", "al", "I", "cl", "dl", "el", 12, W32(\h8F1B, \hBCDC),  9 >>,
       << "al", "bl", "cl", "dl", "el", "I", "bl", "cl", "dl",  4, W32(\h8F1B, \hBCDC),  8 >>,
       << "el", "al", "bl", "cl", "dl", "I", "al", "bl", "cl", 13, W32(\h8F1B, \hBCDC),  9 >>,
       << "dl", "el", "al", "bl", "cl", "I", "el", "al", "bl",  3, W32(\h8F1B, \hBCDC), 14 >>,
       << "cl", "dl", "el", "al", "bl", "I", "dl", "el", "al",  7, W32(\h8F1B, \hBCDC),  5 >>,
       << "bl", "cl", "dl", "el", "al", "I", "cl", "dl", "el", 15, W32(\h8F1B, \hBCDC),  6 >>,
       << "al", "bl", "cl", "dl", "el", "I", "bl", "cl", "dl", 14, W32(\h8F1B, \hBCDC),  8 >>,
       << "el", "al", "bl", "cl", "dl", "I", "al", "bl", "cl",  5, W32(\h8F1B, \hBCDC),  6 >>,
       << "dl", "el", "al", "bl", "cl", "I", "el", "al", "bl",  6, W32(\h8F1B, \hBCDC),  5 >>,
       << "cl", "dl", "el", "al", "bl", "I", "dl", "el", "al",  2, W32(\h8F1B, \hBCDC), 12 >>,
       << "bl", "cl", "dl", "el", "al", "J", "cl", "dl", "el",  4, W32(\hA953, \hFD4E),  9 >>,
       << "al", "bl", "cl", "dl", "el", "J", "bl", "cl", "dl",  0, W32(\hA953, \hFD4E), 15 >>,
       << "el", "al", "bl", "cl", "dl", "J", "al", "bl", "cl",  5, W32(\hA953, \hFD4E),  5 >>,
       << "dl", "el", "al", "bl", "cl", "J", "el", "al", "bl",  9, W32(\hA953, \hFD4E), 11 >>,
       << "cl", "dl", "el", "al", "bl", "J", "dl", "el", "al",  7, W32(\hA953, \hFD4E),  6 >>,
       << "bl", "cl", "dl", "el", "al", "J", "cl", "dl", "el", 12, W32(\hA953, \hFD4E),  8 >>,
       << "al", "bl", "cl", "dl", "el", "J", "bl", "cl", "dl",  2, W32(\hA953, \hFD4E), 13 >>,
       << "el", "al", "bl", "cl", "dl", "J", "al", "bl", "cl", 10, W32(\hA953, \hFD4E), 12 >>,
       << "dl", "el", "al", "bl", "cl", "J", "el", "al", "bl", 14, W32(\hA953, \hFD4E),  5 >>,
       << "cl", "dl", "el", "al", "bl", "J", "dl", "el", "al",  1, W32(\hA953, \hFD4E), 12 >>,
       << "bl", "cl", "dl", "el", "al", "J", "cl", "dl", "el",  3, W32(\hA953, \hFD4E), 13 >>,
       << "al", "bl", "cl", "dl", "el", "J", "bl", "cl", "dl",  8, W32(\hA953, \hFD4E), 14 >>,
       << "el", "al", "bl", "cl", "dl", "J", "al", "bl", "cl", 11, W32(\hA953, \hFD4E), 11 >>,
       << "dl", "el", "al", "bl", "cl", "J", "el", "al", "bl",  6, W32(\hA953, \hFD4E),  8 >>,
       << "cl", "dl", "el", "al", "bl", "J", "dl", "el", "al", 15, W32(\hA953, \hFD4E),  5 >>,
       << "bl", "cl", "dl", "el", "al", "J", "cl", "dl", "el", 13, W32(\hA953, \hFD4E),  6 >>,
       << "ar", "br", "cr", "dr", "er", "J", "br", "cr", "dr",  5, W32(\h50A2, \h8BE6),  8 >>,
       << "er", "ar", "br", "cr", "dr", "J", "ar", "br", "cr", 14, W32(\h50A2, \h8BE6),  9 >>,
       << "dr", "er", "ar", "br", "cr", "J", "er", "ar", "br",  7, W32(\h50A2, \h8BE6),  9 >>,
       << "cr", "dr", "er", "ar", "br", "J", "dr", "er", "ar",  0, W32(\h50A2, \h8BE6), 11 >>,
       << "br", "cr", "dr", "er", "ar", "J", "cr", "dr", "er",  9, W32(\h50A2, \h8BE6), 13 >>,
       << "ar", "br", "cr", "dr", "er", "J", "br", "cr", "dr",  2, W32(\h50A2, \h8BE6), 15 >>,
       << "er", "ar", "br", "cr", "dr", "J", "ar", "br", "cr", 11, W32(\h50A2, \h8BE6), 15 >>,
       << "dr", "er", "ar", "br", "cr", "J", "er", "ar", "br",  4, W32(\h50A2, \h8BE6),  5 >>,
       << "cr", "dr", "er", "ar", "br", "J", "dr", "er", "ar", 13, W32(\h50A2, \h8BE6),  7 >>,
       << "br", "cr", "dr", "er", "ar", "J", "cr", "dr", "er",  6, W32(\h50A2, \h8BE6),  7 >>,
       << "ar", "br", "cr", "dr", "er", "J", "br", "cr", "dr", 15, W32(\h50A2, \h8BE6),  8 >>,
       << "er", "ar", "br", "cr", "dr", "J", "ar", "br", "cr",  8, W32(\h50A2, \h8BE6), 11 >>,
       << "dr", "er", "ar", "br", "cr", "J", "er", "ar", "br",  1, W32(\h50A2, \h8BE6), 14 >>,
       << "cr", "dr", "er", "ar", "br", "J", "dr", "er", "ar", 10, W32(\h50A2, \h8BE6), 14 >>,
       << "br", "cr", "dr", "er", "ar", "J", "cr", "dr", "er",  3, W32(\h50A2, \h8BE6), 12 >>,
       << "ar", "br", "cr", "dr", "er", "J", "br", "cr", "dr", 12, W32(\h50A2, \h8BE6),  6 >>,
       << "er", "ar", "br", "cr", "dr", "I", "ar", "br", "cr",  6, W32(\h5C4D, \hD124),  9 >>,
       << "dr", "er", "ar", "br", "cr", "I", "er", "ar", "br", 11, W32(\h5C4D, \hD124), 13 >>,
       << "cr", "dr", "er", "ar", "br", "I", "dr", "er", "ar",  3, W32(\h5C4D, \hD124), 15 >>,
       << "br", "cr", "dr", "er", "ar", "I", "cr", "dr", "er",  7, W32(\h5C4D, \hD124),  7 >>,
       << "ar", "br", "cr", "dr", "er", "I", "br", "cr", "dr",  0, W32(\h5C4D, \hD124), 12 >>,
       << "er", "ar", "br", "cr", "dr", "I", "ar", "br", "cr", 13, W32(\h5C4D, \hD124),  8 >>,
       << "dr", "er", "ar", "br", "cr", "I", "er", "ar", "br",  5, W32(\h5C4D, \hD124),  9 >>,
       << "cr", "dr", "er", "ar", "br", "I", "dr", "er", "ar", 10, W32(\h5C4D, \hD124), 11 >>,
       << "br", "cr", "dr", "er", "ar", "I", "cr", "dr", "er", 14, W32(\h5C4D, \hD124),  7 >>,
       << "ar", "br", "cr", "dr", "er", "I", "br", "cr", "dr", 15, W32(\h5C4D, \hD124),  7 >>,
       << "er", "ar", "br", "cr", "dr", "I", "ar", "br", "cr",  8, W32(\h5C4D, \hD124), 12 >>,
       << "dr", "er", "ar", "br", "cr", "I", "er", "ar", "br", 12, W32(\h5C4D, \hD124),  7 >>,
       << "cr", "dr", "er", "ar", "br", "I", "dr", "er", "ar",  4, W32(\h5C4D, \hD124),  6 >>,
       << "br", "cr", "dr", "er", "ar", "I", "cr", "dr", "er",  9, W32(\h5C4D, \hD124), 15 >>,
       << "ar", "br", "cr", "dr", "er", "I", "br", "cr", "dr",  1, W32(\h5C4D, \hD124), 13 >>,
       << "er", "ar", "br", "cr", "dr", "I", "ar", "br", "cr",  2, W32(\h5C4D, \hD124), 11 >>,
       << "dr", "er", "ar", "br", "cr", "H", "er", "ar", "br", 15, W32(\h6D70, \h3EF3),  9 >>,
       << "cr", "dr", "er", "ar", "br", "H", "dr", "er", "ar",  5, W32(\h6D70, \h3EF3),  7 >>,
       << "br", "cr", "dr", "er", "ar", "H", "cr", "dr", "er",  1, W32(\h6D70, \h3EF3), 15 >>,
       << "ar", "br", "cr", "dr", "er", "H", "br", "cr", "dr",  3, W32(\h6D70, \h3EF3), 11 >>,
       << "er", "ar", "br", "cr", "dr", "H", "ar", "br", "cr",  7, W32(\h6D70, \h3EF3),  8 >>,
       << "dr", "er", "ar", "br", "cr", "H", "er", "ar", "br", 14, W32(\h6D70, \h3EF3),  6 >>,
       << "cr", "dr", "er", "ar", "br", "H", "dr", "er", "ar",  6, W32(\h6D70, \h3EF3),  6 >>,
       << "br", "cr", "dr", "er", "ar", "H", "cr", "dr", "er",  9, W32(\h6D70, \h3EF3), 14 >>,
       << "ar", "br", "cr", "dr", "er", "H", "br", "cr", "dr", 11, W32(\h6D70, \h3EF3), 12 >>,
       << "er", "ar", "br", "cr", "dr", "H", "ar", "br", "cr",  8, W32(\h6D70, \h3EF3), 13 >>,
       << "dr", "er", "ar", "br", "cr", "H", "er", "ar", "br", 12, W32(\h6D70, \h3EF3),  5 >>,
       << "cr", "dr", "er", "ar", "br", "H", "dr", "er", "ar",  2, W32(\h6D70, \h3EF3), 14 >>,
       << "br", "cr", "dr", "er", "ar", "H", "cr", "dr", "er", 10, W32(\h6D70, \h3EF3), 13 >>,
       << "ar", "br", "cr", "dr", "er", "H", "br", "cr", "dr",  0, W32(\h6D70, \h3EF3), 13 >>,
       << "er", "ar", "br", "cr", "dr", "H", "ar", "br", "cr",  4, W32(\h6D70, \h3EF3),  7 >>,
       << "dr", "er", "ar", "br", "cr", "H", "er", "ar", "br", 13, W32(\h6D70, \h3EF3),  5 >>,
       << "cr", "dr", "er", "ar", "br", "G", "dr", "er", "ar",  8, W32(\h7A6D, \h76E9), 15 >>,
       << "br", "cr", "dr", "er", "ar", "G", "cr", "dr", "er",  6, W32(\h7A6D, \h76E9),  5 >>,
       << "ar", "br", "cr", "dr", "er", "G", "br", "cr", "dr",  4, W32(\h7A6D, \h76E9),  8 >>,
       << "er", "ar", "br", "cr", "dr", "G", "ar", "br", "cr",  1, W32(\h7A6D, \h76E9), 11 >>,
       << "dr", "er", "ar", "br", "cr", "G", "er", "ar", "br",  3, W32(\h7A6D, \h76E9), 14 >>,
       << "cr", "dr", "er", "ar", "br", "G", "dr", "er", "ar", 11, W32(\h7A6D, \h76E9), 14 >>,
       << "br", "cr", "dr", "er", "ar", "G", "cr", "dr", "er", 15, W32(\h7A6D, \h76E9),  6 >>,
       << "ar", "br", "cr", "dr", "er", "G", "br", "cr", "dr",  0, W32(\h7A6D, \h76E9), 14 >>,
       << "er", "ar", "br", "cr", "dr", "G", "ar", "br", "cr",  5, W32(\h7A6D, \h76E9),  6 >>,
       << "dr", "er", "ar", "br", "cr", "G", "er", "ar", "br", 12, W32(\h7A6D, \h76E9),  9 >>,
       << "cr", "dr", "er", "ar", "br", "G", "dr", "er", "ar",  2, W32(\h7A6D, \h76E9), 12 >>,
       << "br", "cr", "dr", "er", "ar", "G", "cr", "dr", "er", 13, W32(\h7A6D, \h76E9),  9 >>,
       << "ar", "br", "cr", "dr", "er", "G", "br", "cr", "dr",  9, W32(\h7A6D, \h76E9), 12 >>,
       << "er", "ar", "br", "cr", "dr", "G", "ar", "br", "cr",  7, W32(\h7A6D, \h76E9),  5 >>,
       << "dr", "er", "ar", "br", "cr", "G", "er", "ar", "br", 10, W32(\h7A6D, \h76E9), 15 >>,
       << "cr", "dr", "er", "ar", "br", "G", "dr", "er", "ar", 14, W32(\h7A6D, \h76E9),  8 >>,
       << "br", "cr", "dr", "er", "ar", "F", "cr", "dr", "er", 12, W32(\h0000, \h0000),  8 >>,
       << "ar", "br", "cr", "dr", "er", "F", "br", "cr", "dr", 15, W32(\h0000, \h0000),  5 >>,
       << "er", "ar", "br", "cr", "dr", "F", "ar", "br", "cr", 10, W32(\h0000, \h0000), 12 >>,
       << "dr", "er", "ar", "br", "cr", "F", "er", "ar", "br",  4, W32(\h0000, \h0000),  9 >>,
       << "cr", "dr", "er", "ar", "br", "F", "dr", "er", "ar",  1, W32(\h0000, \h0000), 12 >>,
       << "br", "cr", "dr", "er", "ar", "F", "cr", "dr", "er",  5, W32(\h0000, \h0000),  5 >>,
       << "ar", "br", "cr", "dr", "er", "F", "br", "cr", "dr",  8, W32(\h0000, \h0000), 14 >>,
       << "er", "ar", "br", "cr", "dr", "F", "ar", "br", "cr",  7, W32(\h0000, \h0000),  6 >>,
       << "dr", "er", "ar", "br", "cr", "F", "er", "ar", "br",  6, W32(\h0000, \h0000),  8 >>,
       << "cr", "dr", "er", "ar", "br", "F", "dr", "er", "ar",  2, W32(\h0000, \h0000), 13 >>,
       << "br", "cr", "dr", "er", "ar", "F", "cr", "dr", "er", 13, W32(\h0000, \h0000),  6 >>,
       << "ar", "br", "cr", "dr", "er", "F", "br", "cr", "dr", 14, W32(\h0000, \h0000),  5 >>,
       << "er", "ar", "br", "cr", "dr", "F", "ar", "br", "cr",  0, W32(\h0000, \h0000), 15 >>,
       << "dr", "er", "ar", "br", "cr", "F", "er", "ar", "br",  3, W32(\h0000, \h0000), 13 >>,
       << "cr", "dr", "er", "ar", "br", "F", "dr", "er", "ar",  9, W32(\h0000, \h0000), 11 >>,
       << "br", "cr", "dr", "er", "ar", "F", "cr", "dr", "er", 11, W32(\h0000, \h0000), 11 >>
    >>

\* the word a round's function yields from the registers in st
RoundFunction(st, row) ==
    CASE row[6] = "F" -> F(st[row[7]], st[row[8]], st[row[9]])
      [] row[6] = "G" -> G(st[row[7]], st[row[8]], st[row[9]])
      [] row[6] = "H" -> H(st[row[7]], st[row[8]], st[row[9]])
      [] row[6] = "I" -> I(st[row[7]], st[row[8]], st[row[9]])
      [] row[6] = "J" -> J(st[row[7]], st[row[8]], st[row[9]])

\* a round that leaves c as it is
RMD_ROUND_keepC(st, X, row) ==
    Bind(AddW(st[row[1]],
              AddW(AddW(RoundFunction(st, row), X[row[10] + 1]), row[11])),
         LAMBDA a :
        [st EXCEPT ![row[1]] = AddW(ROL32(a, row[12]), st[row[5]])])

\* RMD_ROUND(a, b, c, d, e, f, x, k, s):
\* a += f + x + k; a = ROL32(a, s) + e; c = ROL32(c, 10);
RMD_ROUND(st, X, row) ==
    Bind(AddW(st[row[1]],
              AddW(AddW(RoundFunction(st, row), X[row[10] + 1]), row[11])),
         LAMBDA a :
        [st EXCEPT ![row[1]] = AddW(ROL32(a, row[12]), st[row[5]]),
                   ![row[3]] = ROL32(st[row[3]], 10)])

\* X[0..15]: the 32 input bytes as 8 little-endian words, then 0x80, zeros
\* and the length in bits, 256, in X[14]
Rmd160Words(input) ==
    Tup8(LAMBDA i :
        << input[4 * i - 3] % 16, input[4 * i - 3] \div 16,
           input[4 * i - 2] % 16, input[4 * i - 2] \div 16,
           input[4 * i - 1] % 16, input[4 * i - 1] \div 16,
           input[4 * i] % 16, input[4 * i] \div 16 >>)
    \o << W32(0, 128), W32(0, 0), W32(0, 0), W32(0, 0),
          W32(0, 0), W32(0, 0), W32(0, 256), W32(0, 0) >>

\* the two lines of registers before the first round
Rmd160Registers ==
    [ al |-> rmd160_H0[1], bl |-> rmd160_H0[2], cl |-> rmd160_H0[3],
      dl |-> rmd160_H0[4], el |-> rmd160_H0[5],
      ar |-> rmd160_H0[1], br |-> rmd160_H0[2], cr |-> rmd160_H0[3],
      dr |-> rmd160_H0[4], er |-> rmd160_H0[5] ]

\* the four bytes of v, least significant first
PutLE32(v) ==
    << 16 * v[2] + v[1], 16 * v[4] + v[3], 16 * v[6] + v[5], 16 * v[8] + v[7] >>

\* the finalization and the output in little-endian
Rmd160Output(st) ==
    PutLE32(AddW(AddW(rmd160_H0[2], st.cl), st.dr))
 \o PutLE32(AddW(AddW(rmd160_H0[3], st.dl), st.er))
 \o PutLE32(AddW(AddW(rmd160_H0[4], st.el), st.ar))
 \o PutLE32(AddW(AddW(rmd160_H0[5], st.al), st.br))
 \o PutLE32(AddW(AddW(rmd160_H0[1], st.bl), st.cr))

\* rmd160_32: RIPEMD-160 of exactly 32 bytes
rmd160_32(input) ==
    Bind(Rmd160Words(input), LAMBDA X :
        Rmd160Output(
            Iterate(Rmd160Registers, 1, Len(rmd160_rounds),
                    LAMBDA st, n : RMD_ROUND(st, X, rmd160_rounds[n]))))

\* hash160_fast: rmd160_32 of sha256_33
hash160_fast(input) == rmd160_32(sha256_33(input))

(* --------------------- the standard hash functions -------------------- *)
\* SHA-256 as FIPS 180-4 defines it and RIPEMD-160 as Dobbertin, Bosselaers
\* and Preneel define it, for a message of any whole number of bytes. A word
\* here is its 32 bits, most significant first.

StdBits8(n) == Tup8(LAMBDA j : (n \div Pow2(8 - j)) % 2)

StdBits16(n) == Tup16(LAMBDA j : (n \div Pow2(16 - j)) % 2)

StdWord(hi16, lo16) == StdBits16(hi16) \o StdBits16(lo16)

RECURSIVE StdNat(_, _, _)
\* the number written by bits lo .. hi of b
StdNat(b, lo, hi) ==
    IF lo > hi THEN 0 ELSE b[hi] + 2 * StdNat(b, lo, hi - 1)

\* addition modulo 2^32
StdAdd(x, y) ==
    LET lo == StdNat(x, 17, 32) + StdNat(y, 17, 32)
        hi == StdNat(x, 1, 16) + StdNat(y, 1, 16) + (lo \div 65536)
    IN  StdWord(hi % 65536, lo % 65536)

StdXor(x, y) == Tup32(LAMBDA j : (x[j] + y[j]) % 2)

StdAnd(x, y) == Tup32(LAMBDA j : x[j] * y[j])

StdOr(x, y) == Tup32(LAMBDA j : IF x[j] + y[j] > 0 THEN 1 ELSE 0)

StdNot(x) == Tup32(LAMBDA j : 1 - x[j])

\* circular right shift, right shift and circular left shift by n, 0 < n < 32
StdRotr(x, n) == Tup32(LAMBDA j : x[((j - 1 - n + 32) % 32) + 1])

StdShr(x, n) == Tup32(LAMBDA j : IF j <= n THEN 0 ELSE x[j - n])

StdRotl(x, n) == StdRotr(x, 32 - n)

\* the eight bits of each byte of a message, in order
StdMessageBits(m) ==
    Iterate(<<>>, 1, Len(m), LAMBDA b, i : b \o StdBits8(m[i]))

StdZeros(n) == Iterate(<<>>, 1, n, LAMBDA b, i : Append(b, 0))

\* FIPS 180-4, 5.1.1: the message, a 1 bit, k zero bits with
\* l + 1 + k = 448 mod 512, and the length l in 64 bits
StdSha256Pad(m) ==
    LET l == 8 * Len(m)
    IN  StdMessageBits(m) \o << 1 >> \o StdZeros((((447 - l) % 512) + 512) % 512)
            \o StdZeros(32) \o StdWord(l \div 65536, l % 65536)

\* FIPS 180-4, 4.1.2
StdCh(x, y, z) == StdXor(StdAnd(x, y), StdAnd(StdNot(x), z))

StdMaj(x, y, z) == StdXor(StdXor(StdAnd(x, y), StdAnd(x, z)), StdAnd(y, z))

StdSum0(x) == StdXor(StdXor(StdRotr(x, 2), StdRotr(x, 13)), StdRotr(x, 22))

StdSum1(x) == StdXor(StdXor(StdRotr(x, 6), StdRotr(x, 11)), StdRotr(x, 25))

StdSigma0(x) == StdXor(StdXor(StdRotr(x, 7), StdRotr(x, 18)), StdShr(x, 3))

StdSigma1(x) == StdXor(StdXor(StdRotr(x, 17), StdRotr(x, 19)), StdShr(x, 10))

\* FIPS 180-4, 4.2.2: the fractional parts of the cube roots of the first
\* 64 primes
StdSha256K ==
    << StdWord(\h428a, \h2f98), StdWord(\h7137, \h4491), StdWord(\hb5c0, \hfbcf),
       StdWord(\he9b5, \hdba5), StdWord(\h3956, \hc25b), StdWord(\h59f1, \h11f1),
       StdWord(\h923f, \h82a4), StdWord(\hab1c, \h5ed5), StdWord(\hd807, \haa98),
       StdWord(\h1283, \h5b01), StdWord(\h2431, \h85be), StdWord(\h550c, \h7dc3),
       StdWord(\h72be, \h5d74), StdWord(\h80de, \hb1fe), StdWord(\h9bdc, \h06a7),
       StdWord(\hc19b, \hf174), StdWord(\he49b, \h69c1), StdWord(\hefbe, \h4786),
       StdWord(\h0fc1, \h9dc6), StdWord(\h240c, \ha1cc), StdWord(\h2de9, \h2c6f),
       StdWord(\h4a74, \h84aa), StdWord(\h5cb0, \ha9dc), StdWord(\h76f9, \h88da),
       StdWord(\h983e, \h5152), StdWord(\ha831, \hc66d), StdWord(\hb003, \h27c8),
       StdWord(\hbf59, \h7fc7), StdWord(\hc6e0, \h0bf3), StdWord(\hd5a7, \h9147),
       StdWord(\h06ca, \h6351), StdWord(\h1429, \h2967), StdWord(\h27b7, \h0a85),
       StdWord(\h2e1b, \h2138), StdWord(\h4d2c, \h6dfc), StdWord(\h5338, \h0d13),
       StdWord(\h650a, \h7354), StdWord(\h766a, \h0abb), StdWord(\h81c2, \hc92e),
       StdWord(\h9272, \h2c85), StdWord(\ha2bf, \he8a1), StdWord(\ha81a, \h664b),
       StdWord(\hc24b, \h8b70), StdWord(\hc76c, \h51a3), StdWord(\hd192, \he819),
       StdWord(\hd699, \h0624), StdWord(\hf40e, \h3585), StdWord(\h106a, \ha070),
       StdWord(\h19a4, \hc116), StdWord(\h1e37, \h6c08), StdWord(\h2748, \h774c),
       StdWord(\h34b0, \hbcb5), StdWord(\h391c, \h0cb3), StdWord(\h4ed8, \haa4a),
       StdWord(\h5b9c, \hca4f), StdWord(\h682e, \h6ff3), StdWord(\h748f, \h82ee),
       StdWord(\h78a5, \h636f), StdWord(\h84c8, \h7814), StdWord(\h8cc7, \h0208),
       StdWord(\h90be, \hfffa), StdWord(\ha450, \h6ceb), StdWord(\hbef9, \ha3f7),
       StdWord(\hc671, \h78f2) >>

\* FIPS 180-4, 5.3.3: the fractional parts of the square roots of the
\* first 8 primes
StdSha256H0 ==
    << StdWord(\h6a09, \he667), StdWord(\hbb67, \hae85), StdWord(\h3c6e, \hf372),
       StdWord(\ha54f, \hf53a), StdWord(\h510e, \h527f), StdWord(\h9b05, \h688c),
       StdWord(\h1f83, \hd9ab), StdWord(\h5be0, \hcd19) >>

\* FIPS 180-4, 6.2.2 step 1: the message schedule of block p (W_t is W[t + 1])
StdSha256Schedule(p) ==
    Iterate(Tup16(LAMBDA t : SubSeq(p, 32 * t - 31, 32 * t)), 17, 64,
               LAMBDA W, t :
                   Append(W, StdAdd(StdAdd(StdAdd(StdSigma1(W[t - 2]), W[t - 7]),
                                           StdSigma0(W[t - 15])), W[t - 16])))

\* FIPS 180-4, 6.2.2 step 3 for one t, on v = << a, b, c, d, e, f, g, h >>
StdSha256Step(v, K, W) ==
    LET T1 == StdAdd(StdAdd(StdAdd(StdAdd(v[8], StdSum1(v[5])),
                                   StdCh(v[5], v[6], v[7])), K), W)
        T2 == StdAdd(StdSum0(v[1]), StdMaj(v[1], v[2], v[3]))
    IN  << StdAdd(T1, T2), v[1], v[2], v[3], StdAdd(v[4], T1), v[5], v[6], v[7] >>

\* FIPS 180-4, 6.2.2: the hash value after block p, from the value Hv before
StdSha256Compress(Hv, p) ==
    LET W == StdSha256Schedule(p)
        v == Iterate(Hv, 1, 64,
                        LAMBDA u, t : StdSha256Step(u, StdSha256K[t], W[t]))
    IN  Tup8(LAMBDA j : StdAdd(v[j], Hv[j]))

StdBytes(bits) ==
    Iterate(<<>>, 1, Len(bits) \div 8,
               LAMBDA out, i : Append(out, StdNat(bits, 8 * i - 7, 8 * i)))

\* SHA-256 of the byte sequence m
StdSha256(m) ==
    LET p == StdSha256Pad(m)
        Hv == Iterate(StdSha256H0, 1, Len(p) \div 512,
                         LAMBDA h, i :
                             StdSha256Compress(h, SubSeq(p, 512 * i - 511, 512 * i)))
    IN  StdBytes(Hv[1] \o Hv[2] \o Hv[3] \o Hv[4] \o Hv[5] \o Hv[6] \o Hv[7] \o Hv[8])

\* RIPEMD-160: the message, the byte 0x80, zero bytes up to 56 mod 64, and
\* the length in bits as 8 bytes, least significant first
StdRmdPad(m) ==
    LET l == 8 * Len(m)
    IN  m \o << 128 >> \o StdZeros((((55 - Len(m)) % 64) + 64) % 64)
          \o << l % 256, (l \div 256) % 256, (l \div 65536) % 256,
                l \div 16777216, 0, 0, 0, 0 >>

\* word i (from 0) of a block of bytes, least significant byte first
StdRmdWord(p, i) ==
    StdBits8(p[4 * i + 4]) \o StdBits8(p[4 * i + 3])
        \o StdBits8(p[4 * i + 2]) \o StdBits8(p[4 * i + 1])

\* the nonlinear function of step j, 0 <= j <= 79
StdRmdF(j, x, y, z) ==
    CASE j <= 15 -> StdXor(StdXor(x, y), z)
      [] j >= 16 /\ j <= 31 -> StdOr(StdAnd(x, y), StdAnd(StdNot(x), z))
      [] j >= 32 /\ j <= 47 -> StdXor(StdOr(x, StdNot(y)), z)
      [] j >= 48 /\ j <= 63 -> StdOr(StdAnd(x, z), StdAnd(y, StdNot(z)))
      [] j >= 64 -> StdXor(x, StdOr(y, StdNot(z)))

\* the added constants: 2^30 times the square roots of 2, 3, 5, 7 on the
\* left line and their cube roots on the right line, one per round
StdRmdK ==
    << StdWord(\h0000, \h0000), StdWord(\h5a82, \h7999), StdWord(\h6ed9, \heba1),
       StdWord(\h8f1b, \hbcdc), StdWord(\ha953, \hfd4e) >>

StdRmdKK ==
    << StdWord(\h50a2, \h8be6), StdWord(\h5c4d, \hd124), StdWord(\h6d70, \h3ef3),
       StdWord(\h7a6d, \h76e9), StdWord(\h0000, \h0000) >>

\* the selection of message words: rho composed i times on the left line,
\* rho^i after pi on the right line, in round i + 1
StdRmdRho == << 7, 4, 13, 1, 10, 6, 15, 3, 12, 0, 9, 5, 2, 14, 11, 8 >>

StdRmdPi(i) == (9 * i + 5) % 16

RECURSIVE StdRmdRhoPow(_, _)
StdRmdRhoPow(n, i) == IF n = 0 THEN i ELSE StdRmdRho[StdRmdRhoPow(n - 1, i) + 1]

StdRmdR(j) == StdRmdRhoPow(j \div 16, j % 16)

StdRmdRR(j) == StdRmdRhoPow(j \div 16, StdRmdPi(j % 16))

\* the amount of the rotation, by round and by message word
StdRmdShift ==
    << << 11, 14, 15, 12, 5, 8, 7, 9, 11, 13, 14, 15, 6, 7, 9, 8 >>,
       << 12, 13, 11, 15, 6, 9, 9, 7, 12, 15, 11, 13, 7, 8, 7, 7 >>,
       << 13, 15, 14, 11, 7, 7, 6, 8, 13, 14, 13, 12, 5, 5, 6, 9 >>,
       << 14, 11, 12, 14, 8, 6, 5, 5, 15, 12, 15, 14, 9, 9, 8, 6 >>,
       << 15, 12, 13, 13, 9, 5, 8, 6, 14, 11, 12, 11, 8, 6, 5, 5 >> >>

StdRmdS(j) == StdRmdShift[(j \div 16) + 1][StdRmdR(j) + 1]

StdRmdSS(j) == StdRmdShift[(j \div 16) + 1][StdRmdRR(j) + 1]

\* one step of a line on v = << A, B, C, D, E >>:
\* T = rol_s(A + f + x + k) + E; A = E; E = D; D = rol_10(C); C = B; B = T
StdRmdStep(v, f, x, k, s) ==
    << v[5],
       StdAdd(StdRotl(StdAdd(StdAdd(StdAdd(v[1], f), x), k), s), v[5]),
       v[2], StdRotl(v[3], 10), v[4] >>

\* the chaining value after the block of bytes p, from the value h before
StdRmdCompress(h, p) ==
    LET L == Iterate(h, 0, 79, LAMBDA v, j :
                 StdRmdStep(v, StdRmdF(j, v[2], v[3], v[4]),
                            StdRmdWord(p, StdRmdR(j)),
                            StdRmdK[(j \div 16) + 1], StdRmdS(j)))
        R == Iterate(h, 0, 79, LAMBDA v, j :
                 StdRmdStep(v, StdRmdF(79 - j, v[2], v[3], v[4]),
                            StdRmdWord(p, StdRmdRR(j)),
                            StdRmdKK[(j \div 16) + 1], StdRmdSS(j)))
    IN  << StdAdd(StdAdd(h[2], L[3]), R[4]),
           StdAdd(StdAdd(h[3], L[4]), R[5]),
           StdAdd(StdAdd(h[4], L[5]), R[1]),
           StdAdd(StdAdd(h[5], L[1]), R[2]),
           StdAdd(StdAdd(h[1], L[2]), R[3]) >>

StdRmdH0 ==
    << StdWord(\h6745, \h2301), StdWord(\hefcd, \hab89), StdWord(\h98ba, \hdcfe),
       StdWord(\h1032, \h5476), StdWord(\hc3d2, \he1f0) >>

\* the bytes of a word, least significant first
StdRmdBytes(w) ==
    << StdNat(w, 25, 32), StdNat(w, 17, 24), StdNat(w, 9, 16), StdNat(w, 1, 8) >>

\* RIPEMD-160 of the byte sequence m
StdRipemd160(m) ==
    LET p == StdRmdPad(m)
        h == Iterate(StdRmdH0, 1, Len(p) \div 64,
                        LAMBDA v, i :
                            StdRmdCompress(v, SubSeq(p, 64 * i - 63, 64 * i)))
    IN  StdRmdBytes(h[1]) \o StdRmdBytes(h[2]) \o StdRmdBytes(h[3])
            \o StdRmdBytes(h[4]) \o StdRmdBytes(h[5])

(* --------------------------- hash160 on its own ------------------------- *)
\* the compressed form of the generator, as the self-test serializes it
G33 ==
    << 2, \h79, \hBE, \h66, \h7E, \hF9, \hDC, \hBB, \hAC, \h55, \hA0, \h62, \h95,
       \hCE, \h87, \h0B, \h07, \h02, \h9B, \hFC, \hDB, \h2D, \hCE, \h28, \hD9,
       \h59, \hF2, \h81, \h5B, \h16, \hF8, \h17, \h98 >>

\* the digest the self-test expects for the generator
expected ==
    << \h75, \h1e, \h76, \he8, \h19, \h91, \h96, \hd4, \h54, \h94,
       \h1c, \h45, \hd1, \hb3, \ha3, \h23, \hf1, \h43, \h3b, \hd6 >>

\* the 33-byte inputs hashed: the generator, all bytes 0x00, all bytes 0xFF,
\* and inputs with a prefix byte 02 or 03 followed by 32 bytes that vary
\* with k
HashInput(k) ==
    CASE k = 1 -> G33
      [] k = 2 -> [j \in 1..33 |-> 0]
      [] k = 3 -> [j \in 1..33 |-> 255]
      [] k > 3 -> [j \in 1..33 |-> IF j = 1 THEN 2 + (k % 2)
                                   ELSE (k * j * j + 131 * k + 7 * j) % 256]

HashInit ==
    /\ g_total_keys = 0
    /\ g_found = 0
    /\ g_interrupted = 0
    /\ worker = [w \in Workers |-> [InitWorker EXCEPT !.pc = "uncreated"]]
    /\ stats = [pc |-> "uncreated"]
    /\ main = [pc |-> "selftest", tests |-> <<>>, status |-> 0,
               next |-> 1, total |-> 0, message |-> "none"]
    /\ result_file = <<>>
    /\ file_writes = 0
    /\ \E k \in 1..NumHashInputs :
           probe = [pc |-> "input", input |-> HashInput(k)]

\* hash160_fast, first call: sha256_33(input, sha)
HashSha256 ==
    /\ probe.pc = "input"
    /\ probe' = [pc |-> "sha", input |-> probe.input,
                 sha |-> sha256_33(probe.input)]
    /\ UNCHANGED scan_vars

\* hash160_fast, second call: rmd160_32(sha, output)
HashRmd160 ==
    /\ probe.pc = "sha"
    /\ probe' = [pc |-> "done", input |-> probe.input, sha |-> probe.sha,
                 output |-> rmd160_32(probe.sha)]
    /\ UNCHANGED scan_vars

HashNext == HashSha256 \/ HashRmd160

HashSpec == HashInit /\ [][HashNext]_vars

(* ------------------------- reference arithmetic ------------------------ *)
RECURSIVE IncFrom(_, _)
\* x + 1 modulo 2^64 by carrying from byte j upward
IncFrom(x, j) ==
    IF j = 9 THEN x
    ELSE IF x[j] = 255 THEN IncFrom([x EXCEPT ![j] = 0], j + 1)
    ELSE [x EXCEPT ![j] = @ + 1]

IncU64(x) == IncFrom(x, 1)

AllOnes == Tup8(LAMBDA j : 255)

\* the successor of the 128-bit integer hi * 2^64 + lo
Succ128(k) ==
    IF k.lo = AllOnes THEN [hi |-> IncU64(k.hi), lo |-> U64Zero]
    ELSE [hi |-> k.hi, lo |-> IncU64(k.lo)]

RECURSIVE KeyAfter(_, _, _)
\* the 128-bit integer hi * 2^64 + lo + n, by n successor steps
KeyAfter(hi, lo, n) ==
    IF n = 0 THEN [hi |-> hi, lo |-> lo]
    ELSE Bind(KeyAfter(hi, lo, n - 1), LAMBDA k : Succ128(k))

\* 2^64 - 1 - x
NotU64(x) == Tup8(LAMBDA j : 255 - x[j])

\* lo + n >= 2^64, decided without adding: n exceeds the distance to 2^64 - 1
Overflows(lo, n) == LessU64(NotU64(lo), U64FromNat(n))

\* the public point of a key by one scalar multiplication of its own
PointOfKey(k) ==
    secp256k1_ge_set_gej_var(secp256k1_ecmult_gen(make_scalar(k.hi, k.lo)))

\* the digest the matcher would compute for a key
DigestOfKey(k) == hash160(secp256k1_eckey_pubkey_serialize33(PointOfKey(k)))

RECURSIVE SumEvaluated(_)
\* candidates evaluated by workers 1..n
SumEvaluated(n) ==
    IF n = 0 THEN 0 ELSE worker[n].evaluated + SumEvaluated(n - 1)

RECURSIVE SumEvaluatedExited(_)
\* candidates evaluated by those of workers 1..n that have exited
SumEvaluatedExited(n) ==
    IF n = 0 THEN 0
    ELSE (IF worker[n].pc = "exited" THEN worker[n].evaluated ELSE 0)
         + SumEvaluatedExited(n - 1)

\* the worker holds a start: hi, lo are those of its current sample
HasStart(w) ==
    worker[w].pc \in {"for", "eval", "flush_threshold",
                      "report", "store"}

\* the worker holds a generated batch
HasBatch(w) == worker[w].pc \in {"eval", "report", "store"}

NoMatch == \A w \in Workers : ~worker[w].matched

(* -------------------------------- claims ------------------------------- *)
\* C1: when several workers confirm a match concurrently, exactly one of
\* them runs the reporting path to completion and the result file is
\* written exactly once
C1_OneReporter ==
    /\ Cardinality({w \in Workers : worker[w].reported}) <= 1
    /\ file_writes <= 1

\* C2: every start random_start produces, taken as the scalar make_scalar
\* builds from it, lies in the announced range 2^70 .. 2^71 - 1
C2_StartInRange ==
    \A w \in Workers :
        (worker[w].pc = "for" /\ worker[w].batch_num = 0) =>
            \E k \in {make_scalar(worker[w].hi, worker[w].lo)} :
                /\ ~LessB32(k, RANGE_MIN)
                /\ ~LessB32(RANGE_MAX, k)

\* C3: after all workers have exited in a run stopped by a signal with no
\* match, the shared counter equals the number of candidates the workers
\* evaluated
C3_CounterConserved ==
    (AllExited /\ g_interrupted = 1 /\ NoMatch) =>
        g_total_keys = SumEvaluated(NumWorkers)

C3_Witness ==
    /\ AllExited /\ g_interrupted = 1 /\ NoMatch
    /\ \A w \in Workers : worker[w].evaluated >= BATCH_SIZE

\* C4: the shared counter includes every candidate evaluated by a worker
\* that has exited, whatever its exit path, the match path included
C4_ExitedWorkersCounted == SumEvaluatedExited(NumWorkers) <= g_total_keys

C6_CarryCorrect ==
    \A w \in Workers :
        HasStart(w) =>
            \A b \in 0..(NUM_BATCHES - 1) : \A i \in 0..(BATCH_SIZE - 1) :
                \E key \in {FoundKey(worker[w].hi, worker[w].lo, b, i)} :
                \E low \in {KeyAfter(U64Zero, worker[w].lo, b * BATCH_SIZE + i).lo} :
                    IF Overflows(worker[w].lo, b * BATCH_SIZE + i)
                    THEN key = [hi |-> IncU64(worker[w].hi), lo |-> low]
                    ELSE key = [hi |-> worker[w].hi, lo |-> low]

C6_Witness ==
    \E w \in Workers :
        /\ worker[w].pc = "report"
        /\ Overflows(worker[w].lo, worker[w].batch_num * BATCH_SIZE + worker[w].i)
        /\ worker[w].found_hi = IncU64(worker[w].hi)
        /\ ~Overflows(worker[w].lo, 1)

\* C7: the affine point at index i of batch b is the point of the scalar
\* start + b * BATCH_SIZE + i, and the running point a batch starts from is
\* the point of start + b * BATCH_SIZE
C7_BatchIsSequential ==
    \A w \in Workers :
        /\ HasBatch(w) =>
               \A n \in 1..BATCH_SIZE :
                   worker[w].aff_batch[n] =
                       PointOfKey(KeyAfter(worker[w].hi, worker[w].lo,
                                           worker[w].batch_num * BATCH_SIZE + n - 1))
        /\ worker[w].pc = "for" =>
               secp256k1_ge_set_gej_var(worker[w].current_jac) =
                   PointOfKey(KeyAfter(worker[w].hi, worker[w].lo,
                                       worker[w].batch_num * BATCH_SIZE))

C7_Witness ==
    \E w \in Workers :
        /\ worker[w].pc = "eval"
        /\ worker[w].batch_num = NUM_BATCHES - 1

\* C8: once the found flag is set while the threads exist, by a stop request
\* or by a match, every worker eventually exits and main joins them, prints
\* the summary and ends
C8_StopLeadsToExit ==
    (g_found = 1 /\ ThreadsCreated) ~> (AllExited /\ main.pc = "exit")

C8_Witness ==
    /\ g_found = 1 /\ AllExited /\ main.pc = "exit"
    /\ \E w \in Workers : worker[w].evaluated > 0

\* C9: no call of report_found begins in a state where the found flag is
\* already true
C9_NoReportAfterFlag ==
    [][\A w \in Workers :
          (worker[w].pc = "eval" /\ worker'[w].pc = "report") => g_found = 0]_vars

\* C10: the found flag starts false and, once true, stays true
C10_FoundMonotonic == (g_found = 0) /\ [][g_found = 1 => g_found' = 1]_vars

C10_Witness == g_found = 1 /\ main.pc = "exit" /\ main.message = "found"

\* C11: a worker exists only after all three self-tests have passed; when a
\* self-test fails main returns 1 at once, no thread was created, the
\* counter is untouched and the flag is set only if a signal set it
C11_SelfTestsGateStart ==
    /\ (\E w \in Workers : worker[w].pc # "uncreated") =>
           main.tests = <<TRUE, TRUE, TRUE>>
    /\ (\E n \in 1..Len(main.tests) : ~main.tests[n]) =>
           /\ main.pc = "failed"
           /\ main.status = 1
           /\ \A w \in Workers : worker[w] = [InitWorker EXCEPT !.pc = "uncreated"]
           /\ stats.pc = "uncreated"
           /\ g_total_keys = 0
           /\ g_found = g_interrupted

C11_Witness ==
    /\ main.pc = "failed"
    /\ main.tests = <<TRUE, TRUE, FALSE>>

\* C12: a worker whose allocation fails returns at once having drawn no start
\* and evaluated nothing; its return changes neither the counter nor the flag
\* nor any other worker; and in a run stopped by a signal with no match the
\* counter still equals what the remaining workers evaluated
C12_AllocFailureIsolated ==
    /\ [](\A w \in Workers :
             worker[w].no_memory =>
                 worker[w] = [InitWorker EXCEPT !.pc = "exited",
                                                !.no_memory = TRUE])
    /\ []((AllExited /\ g_interrupted = 1 /\ NoMatch
              /\ \E w \in Workers : worker[w].no_memory) =>
             g_total_keys = SumEvaluated(NumWorkers))
    /\ [][\A w \in Workers :
             (~worker[w].no_memory /\ worker'[w].no_memory) =>
                 /\ g_total_keys' = g_total_keys
                 /\ g_found' = g_found
                 /\ \A v \in Workers \ {w} : worker'[v] = worker[v]]_vars

\* one worker failed its allocation; another has since run a whole sample,
\* flushed it and exited on a signal
C12_Witness ==
    /\ AllExited /\ g_interrupted = 1 /\ NoMatch
    /\ \E w \in Workers : worker[w].no_memory
    /\ \E v \in Workers :
           /\ worker[v].evaluated >= BATCH_SIZE * NUM_BATCHES
           /\ g_total_keys = worker[v].evaluated

\* C14: a worker has done exactly one scalar multiplication per start drawn;
\* it is inside at most NUM_BATCHES batches per start; it begins a batch only
\* from a batch-loop check that read the flag clear; it leaves the batch loop
\* with the flag clear only after NUM_BATCHES batches, and an outer-loop
\* check that reads the flag clear draws a fresh start, by random_start from
\* the generator state, and begins again at batch 0
C14_OneMultPerStart ==
    /\ [](\A w \in Workers :
             /\ worker[w].mults = worker[w].samples
             /\ worker[w].batch_num <= NUM_BATCHES
             /\ HasBatch(w) => worker[w].batch_num < NUM_BATCHES)
    /\ [][\A w \in Workers :
             /\ (worker[w].pc = "for" /\ worker'[w].pc = "eval") =>
                    g_found = 0
             /\ (worker[w].pc = "for" /\ worker'[w].pc = "while"
                    /\ g_found = 0) =>
                    /\ worker[w].batch_num = NUM_BATCHES
                    /\ ~worker[w].matched
             /\ (worker[w].pc = "while" /\ worker'[w].pc # "while") =>
                    IF g_found = 0
                    THEN \E rs \in {random_start(worker[w].rng)} :
                             /\ worker'[w].pc = "for"
                             /\ worker'[w].samples = worker[w].samples + 1
                             /\ worker'[w].hi = rs.hi
                             /\ worker'[w].lo = rs.lo
                             /\ worker'[w].batch_num = 0
                    ELSE worker'[w].pc = "exited"]_vars

\* a worker that exhausted the batches of its first start with the flag
\* clear has drawn its second
C14_Witness ==
    \E w \in Workers :
        /\ worker[w].pc = "for"
        /\ worker[w].samples = 2
        /\ worker[w].batch_num = 0
        /\ worker[w].evaluated = BATCH_SIZE * NUM_BATCHES
        /\ g_found = 0

\* C15: a worker that has confirmed a match stopped step 3 at the first
\* matching point, having evaluated that point and the ones before it in the
\* batch; from then on it is only in report_found, at the done label or
\* gone, and it evaluates no candidate, draws no start and begins no batch
C15_MatchIsTerminal ==
    /\ [](\A w \in Workers :
             worker[w].matched =>
                 /\ worker[w].pc \in {"report", "store", "done", "exited"}
                 /\ worker[w].pc # "exited" =>
                        /\ IsMatch(DigestAt(worker[w].aff_batch, worker[w].i))
                        /\ \A j \in 0..(worker[w].i - 1) :
                               ~IsMatch(DigestAt(worker[w].aff_batch, j)))
    /\ [][\A w \in Workers :
             /\ (~worker[w].matched /\ worker'[w].matched) =>
                    worker'[w].evaluated =
                        worker[w].evaluated + worker'[w].i + 1
             /\ worker[w].matched =>
                    /\ worker'[w].matched
                    /\ worker'[w].evaluated = worker[w].evaluated
                    /\ worker'[w].samples = worker[w].samples
                    /\ worker'[w].mults = worker[w].mults
                    /\ worker'[w].pc # "exited" =>
                           /\ worker'[w].batch_num = worker[w].batch_num
                           /\ worker'[w].i = worker[w].i
                           /\ worker'[w].aff_batch = worker[w].aff_batch]_vars

\* a worker at the done label after a match that left a later point of its
\* batch unevaluated
C15_Witness ==
    \E w \in Workers :
        /\ worker[w].pc = "done"
        /\ worker[w].matched
        /\ worker[w].i < BATCH_SIZE - 1
        /\ worker[w].evaluated = worker[w].batch_num * BATCH_SIZE + worker[w].i + 1

\* C16: a digest is taken for a match exactly when all its 20 bytes are the
\* target's; the prefix filter never turns the target away; and the full
\* compare is made only on digests whose first 4 bytes are the target's
C16_FilterKeepsResult ==
    \E h \in {probe.h160_buf} :
        /\ IsMatch(h) <=> (\A j \in 1..20 : h[j] = TARGET_H160[j])
        /\ probe.pc = "match" => h = TARGET_H160
        /\ probe.pc = "next" => h # TARGET_H160
        /\ (probe.pc = "memcmp" \/ probe.compared) =>
               \A j \in 1..4 : h[j] = TARGET_H160[j]

\* a digest with the target's prefix and a different tail went through the
\* full compare and was turned away there
C16_Witness ==
    /\ probe.pc = "next"
    /\ probe.compared
    /\ SubSeq(probe.h160_buf, 1, 4) = SubSeq(TARGET_H160, 1, 4)

\* C17: once set the found flag stays set; while it is set no worker is
\* given a new batch or a new start; and a worker that evaluates candidates
\* while it is set does so in the one batch it already had, at most
\* BATCH_SIZE of them, and is out of that batch afterwards.  So a worker
\* evaluates at most BATCH_SIZE candidates after the flag is set.
C17_AtMostOneBatchAfterFlag ==
    [][g_found = 1 =>
          /\ g_found' = 1
          /\ \A w \in Workers :
                 /\ ~(worker[w].pc # "eval" /\ worker'[w].pc = "eval")
                 /\ worker'[w].samples = worker[w].samples
                 /\ worker'[w].evaluated # worker[w].evaluated =>
                        /\ worker[w].pc = "eval"
                        /\ worker'[w].pc \in {"for", "flush_threshold", "report"}
                        /\ worker'[w].evaluated <=
                               worker[w].evaluated + BATCH_SIZE]_vars

\* the flag is set by a signal and a worker stands at the batch-loop check
\* after the first batch of its sample, with batches left it will not begin
C17_Witness ==
    \E w \in Workers :
        /\ g_found = 1
        /\ g_interrupted = 1
        /\ worker[w].pc = "for"
        /\ worker[w].batch_num = 1
        /\ worker[w].evaluated = BATCH_SIZE
        /\ g_total_keys = 0
        /\ \A v \in Workers \ {w} : worker[v].pc = "start"

\* C18: the shared counter never exceeds the number of candidates the
\* workers have evaluated and is behind it by less than the flush threshold
\* plus BATCH_SIZE per worker; a worker's local tally is below the threshold
\* whenever it is at the batch-loop check or inside a batch, and is zero
\* whenever it is at the outer loop check or has just drawn a start
C18_CounterLagBounded ==
    /\ g_total_keys <= SumEvaluated(NumWorkers)
    /\ SumEvaluated(NumWorkers) - g_total_keys
           < NumWorkers * (FLUSH_THRESHOLD + BATCH_SIZE)
    /\ \A w \in Workers :
           /\ worker[w].local_count < FLUSH_THRESHOLD + BATCH_SIZE
           /\ worker[w].pc \in {"for", "eval"} =>
                  worker[w].local_count < FLUSH_THRESHOLD
           /\ worker[w].pc = "while" => worker[w].local_count = 0
           /\ (worker[w].pc = "for" /\ worker[w].batch_num = 0) =>
                  worker[w].local_count = 0

\* a worker stands before the threshold flush with the largest tally there
\* can be, none of it in the shared counter yet
C18_Witness ==
    \E w \in Workers :
        /\ worker[w].pc = "flush_threshold"
        /\ worker[w].local_count = FLUSH_THRESHOLD - 1 + BATCH_SIZE
        /\ SumEvaluated(NumWorkers) - g_total_keys >= worker[w].local_count

\* the result file holds the key worker w matched
FileHoldsKeyOf(w) ==
    /\ result_file # <<>>
    /\ result_file.key =
           format_privkey(worker[w].found_hi, worker[w].found_lo)

C13_Hash160IsStandard ==
    /\ probe.pc = "sha" => probe.sha = StdSha256(probe.input)
    /\ probe.pc = "done" =>
           /\ Len(probe.output) = 20
           /\ probe.output = StdRipemd160(StdSha256(probe.input))
    /\ (probe.pc = "done" /\ probe.input = G33) => probe.output = expected

\* the standard functions give the digests sha and rmd for the message m
StdDigests(m, sha, rmd) == StdSha256(m) = sha /\ StdRipemd160(m) = rmd

\* the generator has been hashed to the digest of the self-test, which is
\* also what the standard functions give for it; these give the published
\* digests of the message "abc"
C13_Witness ==
    /\ probe.pc = "done"
    /\ probe.input = G33
    /\ probe.output = expected
    /\ probe.output = StdRipemd160(StdSha256(G33))
    /\ StdDigests(<< 97, 98, 99 >>,
           << \hba, \h78, \h16, \hbf, \h8f, \h01, \hcf, \hea,
              \h41, \h41, \h40, \hde, \h5d, \hae, \h22, \h23,
              \hb0, \h03, \h61, \ha3, \h96, \h17, \h7a, \h9c,
              \hb4, \h10, \hff, \h61, \hf2, \h00, \h15, \had >>,
           << \h8e, \hb2, \h08, \hf7, \he0, \h5d, \h98, \h7a, \h9b, \h04,
              \h4a, \h8e, \h98, \hc6, \hb0, \h87, \hf1, \h5a, \h0b, \hfc >>)

====
